---- MODULE Spec2Model ----
(***************************************************************************)
(* Strategy-board share-code codec (src/python/stgy_encoder.py and        *)
(* src/python/stgy_decoder.py): the keyed substitution cipher, the        *)
(* container framing, the binary layout and the icon registry.            *)
(*                                                                         *)
(* Strings are sequences of character codes, byte buffers are sequences   *)
(* of 0..255, Python dicts are functions whose DOMAIN is the key set.     *)
(***************************************************************************)
EXTENDS Integers, Sequences, FiniteSets, TLC

VARIABLES
    pc,           \* stage of the call sequence being modelled
    doc,          \* the Document handed to encode_stgy / build_binary
    binary,       \* byte buffer: build_binary's output, or the codec input
    key,          \* cipher key of the last encode_cipher call
    code,         \* share code: the last encode's output, the decoder's input
    prev_code,    \* the share code before the last change of code
    calls,        \* number of encode_stgy calls made so far
    raw,          \* outcome of the last decode_cipher call: [err, data]
    result,       \* outcome of the last decode_stgy call: [err, doc]
    prev_result,  \* outcome of the decode_stgy call before that
    parsed,       \* parse_binary's locals when its section loop was left
    tamper,       \* what was done to the share code on its way to the decoder
    reg           \* registry lookup in flight (icon and background tables)

vars == <<pc, doc, binary, key, code, prev_code, calls, raw, result, prev_result,
          parsed, tamper, reg>>

\* ------------------------------------------------------------------------
\* Bounds of the model
\* ------------------------------------------------------------------------
MaxObjects == 2      \* objects per Document
MaxCalls == 2        \* encode_stgy calls on one Document
NumKeys == 2         \* values random.randint(0, 63) is sampled at
MaxBufLen == 6       \* length of the byte buffers given to the cipher
MaxIconCode == 150   \* icon-type codes looked up in the registry

\* ------------------------------------------------------------------------
\* Generic helpers
\* ------------------------------------------------------------------------
NoValue == [none |-> TRUE]

Get(d, k, default) == IF k \in DOMAIN d THEN d[k] ELSE default

Range(s) == {s[i] : i \in DOMAIN s}

RECURSIVE Pow2(_)
Pow2(n) == IF n = 0 THEN 1 ELSE 2 * Pow2(n - 1)

RECURSIVE Xor(_, _)
Xor(a, b) ==
    IF a = 0 THEN b
    ELSE IF b = 0 THEN a
    ELSE ((a + b) % 2) + 2 * Xor(a \div 2, b \div 2)

\* struct.pack('<H', v), struct.pack('<h', v), struct.pack('<I', v)
PackU16(v) == <<v % 256, (v \div 256) % 256>>
PackI16(v) == PackU16((v + 65536) % 65536)
PackU32(v) == <<v % 256, (v \div 256) % 256, (v \div 65536) % 256, (v \div 16777216) % 256>>

\* ------------------------------------------------------------------------
\* Cipher tables
\* ------------------------------------------------------------------------
\* stgy_decoder.py: DAT_1420cf520, indexed by character code (index 0 first)
DAT_1420cf520 == <<
    0, 0, 0, 0, 0, 0, 0, 0, 0, 0, 0, 0, 0, 0, 0, 0,
    0, 0, 0, 0, 0, 0, 0, 0, 0, 0, 0, 0, 0, 0, 0, 0,
    0, 0, 0, 0, 0, 0, 0, 0, 0, 0, 0, 78, 0, 80, 0, 0,
    120, 103, 48, 75, 56, 83, 74, 50, 115, 90, 0, 0, 0, 0, 0, 0,
    0, 68, 70, 116, 84, 54, 69, 97, 86, 99, 112, 76, 77, 109, 101, 106,
    57, 88, 66, 52, 82, 89, 55, 95, 110, 79, 98, 0, 0, 0, 0, 0,
    0, 105, 45, 118, 72, 67, 65, 114, 87, 111, 100, 73, 113, 104, 85, 108,
    107, 51, 102, 121, 53, 71, 119, 49, 117, 122, 81
    >>

\* stgy_decoder.py: INVERSE_DAT_1420cf4a0, custom character -> standard character
INVERSE_DAT_1420cf4a0 ==
    (98 :> 45) @@ (50 :> 48) @@ (119 :> 49) @@ (55 :> 50) @@ (113 :> 51) @@ (83 :> 52) @@
    (116 :> 53) @@ (69 :> 54) @@ (86 :> 55) @@ (52 :> 56) @@ (80 :> 57) @@ (102 :> 65) @@
    (82 :> 66) @@ (101 :> 67) @@ (65 :> 68) @@ (70 :> 69) @@ (66 :> 70) @@ (117 :> 71) @@
    (100 :> 72) @@ (107 :> 73) @@ (54 :> 74) @@ (51 :> 75) @@ (75 :> 76) @@ (76 :> 77) @@
    (43 :> 78) @@ (89 :> 79) @@ (45 :> 80) @@ (122 :> 81) @@ (84 :> 82) @@ (53 :> 83) @@
    (68 :> 84) @@ (110 :> 85) @@ (72 :> 86) @@ (104 :> 87) @@ (81 :> 88) @@ (85 :> 89) @@
    (57 :> 90) @@ (87 :> 95) @@ (71 :> 97) @@ (90 :> 98) @@ (73 :> 99) @@ (106 :> 100) @@
    (78 :> 101) @@ (114 :> 102) @@ (49 :> 103) @@ (109 :> 104) @@ (97 :> 105) @@ (79 :> 106) @@
    (112 :> 107) @@ (111 :> 108) @@ (77 :> 109) @@ (88 :> 110) @@ (105 :> 111) @@ (74 :> 112) @@
    (108 :> 113) @@ (103 :> 114) @@ (56 :> 115) @@ (67 :> 116) @@ (120 :> 117) @@ (99 :> 118) @@
    (118 :> 119) @@ (48 :> 120) @@ (115 :> 121) @@ (121 :> 122)

\* stgy_encoder.py: INVERSE_DAT
INVERSE_DAT ==
    (98 :> 45) @@ (50 :> 48) @@ (119 :> 49) @@ (55 :> 50) @@ (113 :> 51) @@ (83 :> 52) @@
    (116 :> 53) @@ (69 :> 54) @@ (86 :> 55) @@ (52 :> 56) @@ (80 :> 57) @@ (102 :> 65) @@
    (82 :> 66) @@ (101 :> 67) @@ (65 :> 68) @@ (70 :> 69) @@ (66 :> 70) @@ (117 :> 71) @@
    (100 :> 72) @@ (107 :> 73) @@ (54 :> 74) @@ (51 :> 75) @@ (75 :> 76) @@ (76 :> 77) @@
    (43 :> 78) @@ (89 :> 79) @@ (45 :> 80) @@ (122 :> 81) @@ (84 :> 82) @@ (53 :> 83) @@
    (68 :> 84) @@ (110 :> 85) @@ (72 :> 86) @@ (104 :> 87) @@ (81 :> 88) @@ (85 :> 89) @@
    (57 :> 90) @@ (87 :> 95) @@ (71 :> 97) @@ (90 :> 98) @@ (73 :> 99) @@ (106 :> 100) @@
    (78 :> 101) @@ (114 :> 102) @@ (49 :> 103) @@ (109 :> 104) @@ (97 :> 105) @@ (79 :> 106) @@
    (112 :> 107) @@ (111 :> 108) @@ (77 :> 109) @@ (88 :> 110) @@ (105 :> 111) @@ (74 :> 112) @@
    (108 :> 113) @@ (103 :> 114) @@ (56 :> 115) @@ (67 :> 116) @@ (120 :> 117) @@ (99 :> 118) @@
    (118 :> 119) @@ (48 :> 120) @@ (115 :> 121) @@ (121 :> 122)

\* stgy_encoder.py: FORWARD_DAT = {v: k for k, v in INVERSE_DAT.items()}
\* (a later item overwrites an earlier one with the same value)
FORWARD_DAT ==
    [v \in {INVERSE_DAT[k] : k \in DOMAIN INVERSE_DAT} |->
        CHOOSE k \in DOMAIN INVERSE_DAT : INVERSE_DAT[k] = v]

\* stgy_encoder.py: the encoder's own copy of DAT_1420cf520
ENC_DAT_1420cf520 == <<
    0, 0, 0, 0, 0, 0, 0, 0, 0, 0, 0, 0, 0, 0, 0, 0,
    0, 0, 0, 0, 0, 0, 0, 0, 0, 0, 0, 0, 0, 0, 0, 0,
    0, 0, 0, 0, 0, 0, 0, 0, 0, 0, 0, 78, 0, 80, 0, 0,
    120, 103, 48, 75, 56, 83, 74, 50, 115, 90, 0, 0, 0, 0, 0, 0,
    0, 68, 70, 116, 84, 54, 69, 97, 86, 99, 112, 76, 77, 109, 101, 106,
    57, 88, 66, 52, 82, 89, 55, 95, 110, 79, 98, 0, 0, 0, 0, 0,
    0, 105, 45, 118, 72, 67, 65, 114, 87, 111, 100, 73, 113, 104, 85, 108,
    107, 51, 102, 121, 53, 71, 119, 49, 117, 122, 81
    >>

\* stgy_encoder.py: KEY_REVERSE[DAT[i]] = i for ascending i with DAT[i] != 0
KEY_REVERSE ==
    [c \in {ENC_DAT_1420cf520[i] : i \in DOMAIN ENC_DAT_1420cf520} \ {0} |->
        CHOOSE i \in 0..(Len(ENC_DAT_1420cf520) - 1) :
            /\ ENC_DAT_1420cf520[i + 1] = c
            /\ \A j \in 0..(Len(ENC_DAT_1420cf520) - 1) :
                   ENC_DAT_1420cf520[j + 1] = c => j <= i]

char_to_base64_value(o) ==
    IF 65 <= o /\ o <= 90 THEN o - 65
    ELSE IF 97 <= o /\ o <= 122 THEN o - 71
    ELSE IF 48 <= o /\ o <= 57 THEN o + 4
    ELSE IF o = 45 THEN 62
    ELSE IF o = 95 THEN 63
    ELSE 0

base64_value_to_char(val) ==
    LET v == val % 64 IN
    IF v < 26 THEN v + 65
    ELSE IF v < 52 THEN v + 71
    ELSE IF v < 62 THEN v - 4
    ELSE IF v = 62 THEN 45
    ELSE 95

\* ------------------------------------------------------------------------
\* Library functions the codec calls (base64, zlib)
\* ------------------------------------------------------------------------
\* standard base64 alphabet: value -> character
StdB64Char(v) ==
    IF v < 26 THEN v + 65
    ELSE IF v < 52 THEN v + 71
    ELSE IF v < 62 THEN v - 4
    ELSE IF v = 62 THEN 43
    ELSE 47

\* standard base64 alphabet: character -> value, -1 outside the alphabet
StdB64Value(o) ==
    IF 65 <= o /\ o <= 90 THEN o - 65
    ELSE IF 97 <= o /\ o <= 122 THEN o - 71
    ELSE IF 48 <= o /\ o <= 57 THEN o + 4
    ELSE IF o = 43 THEN 62
    ELSE IF o = 47 THEN 63
    ELSE -1

\* base64.b64encode(data): 6-bit groups of the bit stream, '=' padded to a
\* multiple of four characters
b64encode(data) ==
    LET n == Len(data)
        nchars == (8 * n + 5) \div 6
        ByteAt(i) == IF i < n THEN data[i + 1] ELSE 0
        ValAt(j) ==
            LET bitpos == 6 * j
                w == ByteAt(bitpos \div 8) * 256 + ByteAt(bitpos \div 8 + 1)
            IN (w \div Pow2(10 - (bitpos % 8))) % 64
        npad == (4 - (nchars % 4)) % 4
    IN [j \in 1..(nchars + npad) |->
            IF j <= nchars THEN StdB64Char(ValAt(j - 1)) ELSE 61]

\* base64.b64decode(s) in its default non-strict mode: characters outside the
\* alphabet and excess padding are dropped; a count of data characters that
\* is 1 more than a multiple of 4 raises binascii.Error
b64decode(s) ==
    LET vals == SelectSeq([i \in DOMAIN s |-> StdB64Value(s[i])], LAMBDA v : v >= 0)
        n == Len(vals)
        nbytes == (6 * n) \div 8
        ByteAt(k) ==
            LET bitpos == 8 * k
                idx == bitpos \div 6
                w == vals[idx + 1] * 64 + vals[idx + 2]
            IN (w \div Pow2(4 - (bitpos % 6))) % 256
    IN IF n % 4 = 1
       THEN [err |-> "binascii.Error", data |-> <<>>]
       ELSE [err |-> "none", data |-> [k \in 1..nbytes |-> ByteAt(k - 1)]]

\* Sum over i in lo..hi of f(i), by halving (keeps evaluation shallow)
RECURSIVE SumOver(_, _, _)
SumOver(f(_), lo, hi) ==
    IF lo > hi THEN 0
    ELSE IF lo = hi THEN f(lo)
    ELSE LET mid == (lo + hi) \div 2
         IN SumOver(f, lo, mid) + SumOver(f, mid + 1, hi)

\* Adler-32 of the zlib trailer, as its four big-endian bytes:
\* a = 1 + sum of the bytes, b = sum of the running values of a, mod 65521
Adler32(data) ==
    LET n == Len(data)
        ByteAt(i) == data[i]
        Weighted(i) == (n - i + 1) * data[i]
        a == (1 + SumOver(ByteAt, 1, n)) % 65521
        b == (n + SumOver(Weighted, 1, n)) % 65521
    IN <<b \div 256, b % 256, a \div 256, a % 256>>

\* zlib.compress(data, 6): a zlib stream, header 78 9C + body + Adler-32.
\* The deflate body is carried as stored bytes: what the codec relies on is
\* the framing and that decompress inverts compress and rejects damage.
zlib_compress(data) == <<120, 156>> \o data \o Adler32(data)

\* zlib.decompress(stream): zlib.error on a truncated or corrupt stream
zlib_decompress(stream) ==
    LET n == Len(stream)
        body == SubSeq(stream, 3, n - 4)
    IN IF n < 6 \/ stream[1] # 120 \/ stream[2] # 156
       THEN [err |-> "zlib.error", data |-> <<>>]
       ELSE IF SubSeq(stream, n - 3, n) # Adler32(body)
       THEN [err |-> "zlib.error", data |-> <<>>]
       ELSE [err |-> "none", data |-> body]

\* zlib.crc32: the 32-bit register is kept as <<high 16 bits, low 16 bits>>
CrcShift(c) ==
    LET sh == <<c[1] \div 2, (c[2] \div 2) + (c[1] % 2) * 32768>>
    IN IF c[2] % 2 = 1 THEN <<Xor(sh[1], 60856), Xor(sh[2], 33568)>> ELSE sh

RECURSIVE CrcShiftN(_, _)
CrcShiftN(c, n) == IF n = 0 THEN c ELSE CrcShiftN(CrcShift(c), n - 1)

CrcTable == [n \in 0..255 |-> CrcShiftN(<<0, n>>, 8)]

CrcByte(c, byte) ==
    LET t == CrcTable[Xor(c[2] % 256, byte)]
        sh == <<c[1] \div 256, (c[2] \div 256) + (c[1] % 256) * 256>>
    IN <<Xor(t[1], sh[1]), Xor(t[2], sh[2])>>

\* the register after bytes lo..hi, by halving (keeps evaluation shallow)
RECURSIVE CrcFold(_, _, _, _)
CrcFold(data, lo, hi, c) ==
    IF lo > hi THEN c
    ELSE IF lo = hi THEN CrcByte(c, data[lo])
    ELSE LET mid == (lo + hi) \div 2
             left == CrcFold(data, lo, mid, c)
         IN IF left[1] >= 0 THEN CrcFold(data, mid + 1, hi, left) ELSE left

\* struct.pack('<I', zlib.crc32(data) & 0xFFFFFFFF)
crc32_bytes(data) ==
    LET c == CrcFold(data, 1, Len(data), <<65535, 65535>>)
        hi == Xor(c[1], 65535)
        lo == Xor(c[2], 65535)
    IN <<lo % 256, lo \div 256, hi % 256, hi \div 256>>

\* ------------------------------------------------------------------------
\* CipherCodec and ContainerCodec
\* ------------------------------------------------------------------------
PREFIX == <<91, 115, 116, 103, 121, 58, 97>>    \* "[stgy:a"
SUFFIX == <<93>>                                 \* "]"

\* rstrip_eq with the padding left in place
rstrip_none(s) == s

\* b64.rstrip('=')
RECURSIVE rstrip_eq(_)
rstrip_eq(s) ==
    IF Len(s) > 0 /\ s[Len(s)] = 61 THEN rstrip_eq(SubSeq(s, 1, Len(s) - 1)) ELSE s

\* .replace('+', '-').replace('/', '_')
to_urlsafe(s) ==
    [i \in DOMAIN s |-> IF s[i] = 43 THEN 45 ELSE IF s[i] = 47 THEN 95 ELSE s[i]]

\* .replace("-", "+").replace("_", "/")
from_urlsafe(s) ==
    [i \in DOMAIN s |-> IF s[i] = 45 THEN 43 ELSE IF s[i] = 95 THEN 47 ELSE s[i]]

\* the declared length, bytes 4..5 of a container
U16Header(binary_data) == binary_data[5] + 256 * binary_data[6]

\* encode_cipher, the container: header (checksum, declared length) + stream
container_of(binary_data) ==
    LET compressed == zlib_compress(binary_data)
        length_bytes == PackU16(Len(binary_data))
        header == crc32_bytes(length_bytes \o compressed) \o length_bytes
    IN header \o compressed

\* encode_symbol with the substitution table left out
encode_symbol_no_substitution(c, i, k) ==
    LET val == char_to_base64_value(c)
        encoded_val == (val + i + k) % 64
    IN base64_value_to_char(encoded_val)

\* encode_cipher, the keyed rotation of one payload symbol at position i
encode_symbol(c, i, k) ==
    LET val == char_to_base64_value(c)
        encoded_val == (val + i + k) % 64
        standard_char == base64_value_to_char(encoded_val)
    IN Get(FORWARD_DAT, standard_char, 65)

\* encode_cipher, the key character
key_source_of(k) == Get(KEY_REVERSE, base64_value_to_char(k), 86)

\* encode_cipher, from the container bytes on
cipher_text(full_data, k) ==
    LET b64 == to_urlsafe(rstrip_eq(b64encode(full_data)))
        encoded == [i \in DOMAIN b64 |-> encode_symbol(b64[i], i - 1, k)]
    IN PREFIX \o <<key_source_of(k)>> \o encoded \o SUFFIX

encode_cipher(binary_data, k) == cipher_text(container_of(binary_data), k)

\* decode_symbol with the position left out of the rotation
decode_symbol_no_position(c, i, k) ==
    LET standard_char == Get(INVERSE_DAT_1420cf4a0, c, 65)
        val == char_to_base64_value(standard_char)
        decoded_val == (val - k) % 64
    IN base64_value_to_char(decoded_val)

\* decode_symbol keeping a character without a table entry as it is
decode_symbol_keep_unmapped(c, i, k) ==
    LET standard_char == Get(INVERSE_DAT_1420cf4a0, c, c)
        val == char_to_base64_value(standard_char)
        decoded_val == (val - i - k) % 64
    IN base64_value_to_char(decoded_val)

\* decode_cipher, the inverse rotation of one payload symbol at position i
decode_symbol(c, i, k) ==
    LET standard_char == Get(INVERSE_DAT_1420cf4a0, c, 65)
        val == char_to_base64_value(standard_char)
        decoded_val == (val - i - k) % 64
    IN base64_value_to_char(decoded_val)

\* decode_cipher, the key recovered from the key character
\* (DAT_1420cf520[ord(key_char)] raises IndexError past the table's end)
key_of(key_char) == char_to_base64_value(DAT_1420cf520[key_char + 1])

\* stgy_string[7:-1]
strip_wrapper(stgy_string) == SubSeq(stgy_string, 8, Len(stgy_string) - 1)

\* decode_cipher, up to the container bytes
container_bytes(stgy_string) ==
    LET data == strip_wrapper(stgy_string)
    IN IF Len(data) = 0 \/ data[1] >= Len(DAT_1420cf520)
       THEN [err |-> "IndexError", data |-> <<>>]
       ELSE LET k == key_of(data[1])
                payload == SubSeq(data, 2, Len(data))
                decoded == [i \in DOMAIN payload |-> decode_symbol(payload[i], i - 1, k)]
            IN b64decode(from_urlsafe(decoded) \o <<61, 61>>)

\* open_container enforcing the declared length of the header
open_container_checked(binary_data) ==
    LET d == zlib_decompress(SubSeq(binary_data, 7, Len(binary_data)))
    IN IF d.err = "none" /\ Len(binary_data) >= 6
          /\ U16Header(binary_data) # Len(d.data)
       THEN [err |-> "length mismatch", data |-> <<>>]
       ELSE d

\* zlib.decompress(binary_data[6:])
open_container(binary_data) == zlib_decompress(SubSeq(binary_data, 7, Len(binary_data)))

decode_cipher(stgy_string) ==
    LET c == container_bytes(stgy_string)
    IN IF c.err # "none" THEN c ELSE open_container(c.data)

\* ------------------------------------------------------------------------
\* IconRegistry
\* ------------------------------------------------------------------------
\* stgy_encoder.py: ICON_TYPE_IDS, name -> icon-type code
ICON_TYPE_IDS ==
    ("checkered_circle" :> 4) @@ ("checkered_square" :> 8) @@ ("grey_circle" :> 124) @@
    ("grey_square" :> 125) @@ ("circle_aoe" :> 9) @@ ("fan_aoe" :> 10) @@
    ("line_aoe" :> 11) @@ ("line" :> 12) @@ ("gaze" :> 13) @@
    ("stack" :> 14) @@ ("line_stack" :> 15) @@ ("proximity" :> 16) @@
    ("donut" :> 17) @@ ("stack_multi" :> 106) @@ ("proximity_player" :> 107) @@
    ("tankbuster" :> 108) @@ ("radial_knockback" :> 109) @@ ("linear_knockback" :> 110) @@
    ("tower" :> 111) @@ ("targeting" :> 112) @@ ("moving_circle_aoe" :> 126) @@
    ("1person_aoe" :> 127) @@ ("2person_aoe" :> 128) @@ ("3person_aoe" :> 129) @@
    ("4person_aoe" :> 130) @@ ("gladiator" :> 18) @@ ("pugilist" :> 19) @@
    ("marauder" :> 20) @@ ("lancer" :> 21) @@ ("archer" :> 22) @@
    ("conjurer" :> 23) @@ ("thaumaturge" :> 24) @@ ("arcanist" :> 25) @@
    ("rogue" :> 26) @@ ("paladin" :> 27) @@ ("monk" :> 28) @@
    ("warrior" :> 29) @@ ("dragoon" :> 30) @@ ("bard" :> 31) @@
    ("white_mage" :> 32) @@ ("black_mage" :> 33) @@ ("summoner" :> 34) @@
    ("scholar" :> 35) @@ ("ninja" :> 36) @@ ("machinist" :> 37) @@
    ("dark_knight" :> 38) @@ ("astrologian" :> 39) @@ ("samurai" :> 40) @@
    ("red_mage" :> 41) @@ ("blue_mage" :> 42) @@ ("gunbreaker" :> 43) @@
    ("dancer" :> 44) @@ ("reaper" :> 45) @@ ("sage" :> 46) @@
    ("viper" :> 101) @@ ("pictomancer" :> 102) @@ ("tank" :> 47) @@
    ("tank_1" :> 48) @@ ("tank_2" :> 49) @@ ("healer" :> 50) @@
    ("healer_1" :> 51) @@ ("healer_2" :> 52) @@ ("dps" :> 53) @@
    ("dps_1" :> 54) @@ ("dps_2" :> 55) @@ ("dps_3" :> 56) @@
    ("dps_4" :> 57) @@ ("melee_dps" :> 118) @@ ("ranged_dps" :> 119) @@
    ("physical_ranged_dps" :> 120) @@ ("magical_ranged_dps" :> 121) @@ ("pure_healer" :> 122) @@
    ("barrier_healer" :> 123) @@ ("small_enemy" :> 60) @@ ("medium_enemy" :> 62) @@
    ("large_enemy" :> 64) @@ ("attack_1" :> 65) @@ ("attack_2" :> 66) @@
    ("attack_3" :> 67) @@ ("attack_4" :> 68) @@ ("attack_5" :> 69) @@
    ("attack_6" :> 115) @@ ("attack_7" :> 116) @@ ("attack_8" :> 117) @@
    ("bind_1" :> 70) @@ ("bind_2" :> 71) @@ ("bind_3" :> 72) @@
    ("ignore_1" :> 73) @@ ("ignore_2" :> 74) @@ ("square_marker" :> 75) @@
    ("circle_marker" :> 76) @@ ("plus_marker" :> 77) @@ ("triangle_marker" :> 78) @@
    ("waymark_a" :> 79) @@ ("waymark_b" :> 80) @@ ("waymark_c" :> 81) @@
    ("waymark_d" :> 82) @@ ("waymark_1" :> 83) @@ ("waymark_2" :> 84) @@
    ("waymark_3" :> 85) @@ ("waymark_4" :> 86) @@ ("shape_circle" :> 87) @@
    ("shape_x" :> 88) @@ ("shape_triangle" :> 89) @@ ("shape_square" :> 90) @@
    ("up_arrow" :> 94) @@ ("text" :> 100) @@ ("rotate" :> 103) @@
    ("highlighted_circle" :> 135) @@ ("highlighted_x" :> 136) @@ ("highlighted_square" :> 137) @@
    ("highlighted_triangle" :> 138) @@ ("rotate_clockwise" :> 139) @@ ("rotate_counterclockwise" :> 140) @@
    ("enhancement" :> 113) @@ ("enfeeblement" :> 114) @@ ("lockon_red" :> 131) @@
    ("lockon_blue" :> 132) @@ ("lockon_purple" :> 133) @@ ("lockon_green" :> 134) @@
    ("group" :> 105)

\* the decoder's table as the inverse of the encoder's, with the two codes
\* of one pair of neighbours (101 viper, 102 pictomancer) exchanged
ICON_TYPES_swapped ==
    (101 :> "pictomancer") @@ (102 :> "viper") @@
    [c \in {ICON_TYPE_IDS[m] : m \in DOMAIN ICON_TYPE_IDS} |->
        CHOOSE m \in DOMAIN ICON_TYPE_IDS : ICON_TYPE_IDS[m] = c]

\* stgy_decoder.py: ICON_TYPES, icon-type code -> name
ICON_TYPES ==
    (4 :> "checkered_circle") @@ (8 :> "checkered_square") @@ (124 :> "grey_circle") @@
    (125 :> "grey_square") @@ (9 :> "circle_aoe") @@ (10 :> "fan_aoe") @@
    (11 :> "line_aoe") @@ (12 :> "line") @@ (13 :> "gaze") @@
    (14 :> "stack") @@ (15 :> "line_stack") @@ (16 :> "proximity") @@
    (17 :> "donut") @@ (106 :> "stack_multi") @@ (107 :> "proximity_player") @@
    (108 :> "tankbuster") @@ (109 :> "radial_knockback") @@ (110 :> "linear_knockback") @@
    (111 :> "tower") @@ (112 :> "targeting") @@ (126 :> "moving_circle_aoe") @@
    (127 :> "1person_aoe") @@ (128 :> "2person_aoe") @@ (129 :> "3person_aoe") @@
    (130 :> "4person_aoe") @@ (18 :> "gladiator") @@ (19 :> "pugilist") @@
    (20 :> "marauder") @@ (21 :> "lancer") @@ (22 :> "archer") @@
    (23 :> "conjurer") @@ (24 :> "thaumaturge") @@ (25 :> "arcanist") @@
    (26 :> "rogue") @@ (27 :> "paladin") @@ (28 :> "monk") @@
    (29 :> "warrior") @@ (30 :> "dragoon") @@ (31 :> "bard") @@
    (32 :> "white_mage") @@ (33 :> "black_mage") @@ (34 :> "summoner") @@
    (35 :> "scholar") @@ (36 :> "ninja") @@ (37 :> "machinist") @@
    (38 :> "dark_knight") @@ (39 :> "astrologian") @@ (40 :> "samurai") @@
    (41 :> "red_mage") @@ (42 :> "blue_mage") @@ (43 :> "gunbreaker") @@
    (44 :> "dancer") @@ (45 :> "reaper") @@ (46 :> "sage") @@
    (101 :> "viper") @@ (102 :> "pictomancer") @@ (47 :> "tank") @@
    (48 :> "tank_1") @@ (49 :> "tank_2") @@ (50 :> "healer") @@
    (51 :> "healer_1") @@ (52 :> "healer_2") @@ (53 :> "dps") @@
    (54 :> "dps_1") @@ (55 :> "dps_2") @@ (56 :> "dps_3") @@
    (57 :> "dps_4") @@ (118 :> "melee_dps") @@ (119 :> "ranged_dps") @@
    (120 :> "physical_ranged_dps") @@ (121 :> "magical_ranged_dps") @@ (122 :> "pure_healer") @@
    (123 :> "barrier_healer") @@ (60 :> "small_enemy") @@ (62 :> "medium_enemy") @@
    (64 :> "large_enemy") @@ (65 :> "attack_1") @@ (66 :> "attack_2") @@
    (67 :> "attack_3") @@ (68 :> "attack_4") @@ (69 :> "attack_5") @@
    (115 :> "attack_6") @@ (116 :> "attack_7") @@ (117 :> "attack_8") @@
    (70 :> "bind_1") @@ (71 :> "bind_2") @@ (72 :> "bind_3") @@
    (73 :> "ignore_1") @@ (74 :> "ignore_2") @@ (75 :> "square_marker") @@
    (76 :> "circle_marker") @@ (77 :> "plus_marker") @@ (78 :> "triangle_marker") @@
    (79 :> "waymark_a") @@ (80 :> "waymark_b") @@ (81 :> "waymark_c") @@
    (82 :> "waymark_d") @@ (83 :> "waymark_1") @@ (84 :> "waymark_2") @@
    (85 :> "waymark_3") @@ (86 :> "waymark_4") @@ (87 :> "shape_circle") @@
    (88 :> "shape_x") @@ (89 :> "shape_triangle") @@ (90 :> "shape_square") @@
    (94 :> "up_arrow") @@ (100 :> "text") @@ (103 :> "rotate") @@
    (135 :> "highlighted_circle") @@ (136 :> "highlighted_x") @@ (137 :> "highlighted_square") @@
    (138 :> "highlighted_triangle") @@ (139 :> "rotate_clockwise") @@ (140 :> "rotate_counterclockwise") @@
    (113 :> "enhancement") @@ (114 :> "enfeeblement") @@ (131 :> "lockon_red") @@
    (132 :> "lockon_blue") @@ (133 :> "lockon_purple") @@ (134 :> "lockon_green") @@
    (105 :> "group")

\* stgy_decoder.py: BACKGROUND_TYPES, tag-6 code -> name
BACKGROUND_TYPES ==
    (0 :> "none") @@ (1 :> "checkered") @@ (2 :> "checkered_circle") @@
    (3 :> "checkered_square") @@ (4 :> "grey") @@ (5 :> "grey_circle") @@
    (6 :> "grey_square")

\* stgy_decoder.py, tag 3: bg_names, footer code -> name
bg_names ==
    (1 :> "none") @@ (2 :> "checkered") @@ (3 :> "checkered_circle") @@
    (4 :> "checkered_square") @@ (5 :> "grey") @@ (6 :> "grey_circle") @@
    (7 :> "grey_square")

\* stgy_encoder.py, tag 6: bg_map, name -> tag-6 code
obj_bg_map ==
    ("none" :> 0) @@ ("checkered" :> 1) @@ ("checkered_circle" :> 2) @@
    ("checkered_square" :> 3) @@ ("grey" :> 4) @@ ("grey_circle" :> 5) @@
    ("grey_square" :> 6)

\* stgy_encoder.py, tag 3: bg_map, name -> footer code
board_bg_map ==
    ("none" :> 1) @@ ("checkered" :> 2) @@ ("checkered_circle" :> 3) @@
    ("checkered_square" :> 4) @@ ("grey" :> 5) @@ ("grey_circle" :> 6) @@
    ("grey_square" :> 7)

\* A value that Python holds as either a str or an int is tagged, so that
\* isinstance(v, str) is a test on the tag.
StrV(s) == [str |-> s]
IntV(i) == [int |-> i]
IsStr(v) == "str" \in DOMAIN v

\* parse_binary: ICON_TYPES.get(icon_id, f"unknown_{icon_id}")
icon_name(icon_id) == Get(ICON_TYPES, icon_id, "unknown_" \o ToString(icon_id))

\* parse_binary, "Build objects": the "type" and "type_id" of an object
icon_entry(icon_id) == [type |-> icon_name(icon_id), type_id |-> icon_id]

\* build_binary: obj.get("type_id") or ICON_TYPE_IDS.get(type_name, 47)
\* (a type_id of 0 is falsy, so the name lookup is used for it)
icon_type_id(obj) ==
    IF "type_id" \in DOMAIN obj /\ obj.type_id # 0
    THEN obj.type_id
    ELSE Get(ICON_TYPE_IDS, Get(obj, "type", "tank"), 47)

\* build_binary, tag 6: the object's background code
obj_bg_code(obj) ==
    LET bg == Get(obj, "background", IntV(0))
    IN IF IsStr(bg) THEN Get(obj_bg_map, bg.str, 0) ELSE bg.int

\* board_bg_code reading the tag-6 table: the two tables merged into one
board_bg_code_merged(data) ==
    LET board_bg == Get(data, "board_background", IntV(1))
    IN IF IsStr(board_bg) THEN Get(obj_bg_map, board_bg.str, 1) ELSE board_bg.int

\* build_binary, tag 3: the board background code
\* (board_bg.lower() is the identity on the lower-case names used here)
board_bg_code(data) ==
    LET board_bg == Get(data, "board_background", IntV(1))
    IN IF IsStr(board_bg) THEN Get(board_bg_map, board_bg.str, 1) ELSE board_bg.int

\* parse_binary: BACKGROUND_TYPES.get(backgrounds[i], backgrounds[i])
obj_bg_name(bg) ==
    IF bg \in DOMAIN BACKGROUND_TYPES THEN StrV(BACKGROUND_TYPES[bg]) ELSE IntV(bg)

\* parse_binary, tag 3: bg_names.get(board_bg, f"unknown_{board_bg}")
board_bg_name(board_bg) == Get(bg_names, board_bg, "unknown_" \o ToString(board_bg))

\* ------------------------------------------------------------------------
\* BinaryLayout: build
\* ------------------------------------------------------------------------
\* Coordinates are held in hundredths of a grid unit (1.5 is 150), so that
\* inputs finer than the stored 0.1 resolution can be written down.

\* int_times_10 with the scaling left out: int(v)
int_unscaled(h) == IF h >= 0 THEN h \div 100 ELSE -((-h) \div 100)

\* int(v * 10): truncation toward zero
int_times_10(h) == IF h >= 0 THEN h \div 10 ELSE -((-h) \div 10)

Zeros(n) == [i \in 1..n |-> 0]

\* the concatenation of Elem(1), ..., Elem(n), each w bytes wide
Flat(Elem(_), n, w) ==
    [j \in 1..(n * w) |-> Elem(((j - 1) \div w) + 1)[((j - 1) % w) + 1]]

\* struct.pack_into(fmt, result, off, ...): overwrite at 0-based offset off
PackInto(buf, off, bytes) ==
    [i \in DOMAIN buf |->
        IF off + 1 <= i /\ i <= off + Len(bytes) THEN bytes[i - off] ELSE buf[i]]

\* name.encode('utf-8')[:8].ljust(8, b'\x00') of data.get("name", "board")[:7]
\* (names are ASCII here: one byte per character)
name_bytes(data) ==
    LET full == Get(data, "name", <<98, 111, 97, 114, 100>>)
        name == SubSeq(full, 1, IF Len(full) < 7 THEN Len(full) ELSE 7)
        enc == SubSeq(name, 1, IF Len(name) < 8 THEN Len(name) ELSE 8)
    IN enc \o Zeros(8 - Len(enc))

\* build_binary: header 0x00 - 0x23, sizes still to be patched
build_header(data) ==
    PackU32(2) \o PackU32(0) \o Zeros(10) \o PackU32(0) \o PackU16(0)
        \o PackU16(1) \o PackU16(8) \o name_bytes(data)

\* build_binary: object list, one (2, type_id) pair per object
build_icons(objects) ==
    LET Pair(i) == PackU16(2) \o PackU16(icon_type_id(objects[i]))
    IN Flat(Pair, Len(objects), 4)

\* build_binary: the n == 1 flags value
flags_of(obj) ==
    IF Get(obj, "hidden", FALSE) THEN 0
    ELSE IF Get(obj, "locked", FALSE) THEN 9
    ELSE 1

\* build_tag4 without the empty-board case
build_tag4_unconditional(objects) ==
    LET n == Len(objects)
        One(i) == PackU16(1)
    IN IF n = 1
       THEN PackU16(4) \o PackU16(1) \o PackU16(1) \o PackU16(flags_of(objects[1]))
       ELSE PackU16(4) \o PackU16(1) \o PackU16(n) \o Flat(One, n, 2)

\* build_binary: tag 4
build_tag4(objects) ==
    LET n == Len(objects)
        One(i) == PackU16(1)
    IN IF n = 0 THEN <<>>
       ELSE IF n = 1
       THEN PackU16(4) \o PackU16(1) \o PackU16(1) \o PackU16(flags_of(objects[1]))
       ELSE PackU16(4) \o PackU16(1) \o PackU16(n) \o Flat(One, n, 2)

\* build_binary: tag 5, positions
build_tag5(objects) ==
    LET n == Len(objects)
        Pos(i) == PackI16(int_times_10(Get(objects[i], "x", 0)))
                      \o PackI16(int_times_10(Get(objects[i], "y", 0)))
    IN PackU16(5) \o PackU16(3) \o PackU16(n) \o Flat(Pos, n, 4)

\* build_binary: tag 6, object background
build_tag6(objects) ==
    LET n == Len(objects)
        Bg(i) == PackU16(obj_bg_code(objects[i]))
    IN PackU16(6) \o PackU16(1) \o PackU16(n) \o Flat(Bg, n, 2)

\* build_tag7 without the pad byte after an odd number of size bytes
build_tag7_no_pad(objects) ==
    LET n == Len(objects)
        Size(i) == <<Get(objects[i], "size", 100) % 256>>
    IN PackU16(7) \o PackU16(0) \o PackU16(n) \o Flat(Size, n, 1)

\* build_binary: tag 7, size bytes and the odd-count pad byte
build_tag7(objects) ==
    LET n == Len(objects)
        Size(i) == <<Get(objects[i], "size", 100) % 256>>
    IN PackU16(7) \o PackU16(0) \o PackU16(n) \o Flat(Size, n, 1)
           \o (IF n % 2 = 1 THEN <<0>> ELSE <<>>)

\* build_tag8 with black as the colour of an object that names none
build_tag8_black(objects) ==
    LET n == Len(objects)
        Rgba(i) == <<Get(objects[i], "color_r", 0), Get(objects[i], "color_g", 0),
                     Get(objects[i], "color_b", 0), Get(objects[i], "transparency", 0)>>
    IN PackU16(8) \o PackU16(2) \o PackU16(n) \o Flat(Rgba, n, 4)

\* build_binary: tag 8, colour
build_tag8(objects) ==
    LET n == Len(objects)
        Rgba(i) == <<Get(objects[i], "color_r", 255), Get(objects[i], "color_g", 255),
                     Get(objects[i], "color_b", 255), Get(objects[i], "transparency", 0)>>
    IN PackU16(8) \o PackU16(2) \o PackU16(n) \o Flat(Rgba, n, 4)

\* build_binary: tag 10, arc angle
build_tag10(objects) ==
    LET n == Len(objects)
        Arc(i) == PackU16(Get(objects[i], "arc_angle", 0))
    IN PackU16(10) \o PackU16(1) \o PackU16(n) \o Flat(Arc, n, 2)

\* build_tag11 filled from the arc angle
build_tag11_from_arc(objects) ==
    LET n == Len(objects)
        Radius(i) == PackU16(Get(objects[i], "arc_angle", 0))
    IN PackU16(11) \o PackU16(1) \o PackU16(n) \o Flat(Radius, n, 2)

\* build_binary: tag 11, donut radius
build_tag11(objects) ==
    LET n == Len(objects)
        Radius(i) == PackU16(Get(objects[i], "donut_radius",
                                 Get(objects[i], "knockback_horizontal", 0)))
    IN PackU16(11) \o PackU16(1) \o PackU16(n) \o Flat(Radius, n, 2)

\* build_binary: tag 12, reserved
build_tag12(objects) ==
    LET n == Len(objects)
    IN PackU16(12) \o PackU16(1) \o PackU16(n) \o Zeros(2 * n)

\* build_footer written only for a board that has objects
build_footer_nonempty(data) ==
    IF Len(Get(data, "objects", <<>>)) = 0 THEN <<>>
    ELSE PackU16(3) \o PackU16(1) \o PackU16(1) \o PackU16(board_bg_code(data))

\* build_binary: tag 3, footer with the board background
build_footer(data) ==
    PackU16(3) \o PackU16(1) \o PackU16(1) \o PackU16(board_bg_code(data))

\* build_binary: the buffer before the two size fields are patched
build_body(data) ==
    LET objects == Get(data, "objects", <<>>)
        n == Len(objects)
    IN build_header(data) \o build_icons(objects) \o build_tag4(objects)
        \o (IF n > 0
            THEN build_tag5(objects) \o build_tag6(objects) \o build_tag7(objects)
                 \o build_tag8(objects) \o build_tag10(objects)
                 \o build_tag11(objects) \o build_tag12(objects)
            ELSE <<>>)
        \o build_footer(data)

\* patch_sizes computed from the length before the 8-byte footer is counted
patch_sizes_early(buf) ==
    PackInto(PackInto(buf, 18, PackU32(Len(buf) - 8 - 28)), 4, PackU32(Len(buf) - 8 - 16))

\* build_binary: "Update sizes", the two back-patched header fields
patch_sizes(buf) ==
    PackInto(PackInto(buf, 18, PackU32(Len(buf) - 28)), 4, PackU32(Len(buf) - 16))

build_binary(data) == patch_sizes(build_body(data))

\* ------------------------------------------------------------------------
\* BinaryLayout: parse
\* ------------------------------------------------------------------------
Min(a, b) == IF a < b THEN a ELSE b

\* struct.unpack_from('<H', data, pos)[0]; the caller checks pos + 2 <= len
U16At(data, pos) == data[pos + 1] + 256 * data[pos + 2]

\* struct.unpack_from('<h', data, pos)[0]
I16At(data, pos) ==
    LET u == U16At(data, pos) IN IF u >= 32768 THEN u - 65536 ELSE u

\* the loop body applied until the loop is left, at most n times; evaluated
\* by halving so that long buffers do not nest deeply
RECURSIVE Iterate(_, _, _)
Iterate(Step(_), st, n) ==
    IF n <= 0 \/ st.done THEN st
    ELSE IF n = 1 THEN Step(st)
    ELSE LET half == Iterate(Step, st, n \div 2)
         IN IF half.done THEN half ELSE Iterate(Step, half, n - (n \div 2))

\* icon_step appending the icon without moving the read position
icon_step_no_advance(data, st) ==
    IF ~(st.pos < Len(data) - 4) THEN [st EXCEPT !.done = TRUE]
    ELSE IF U16At(data, st.pos) # 2 THEN [st EXCEPT !.done = TRUE]
    ELSE [st EXCEPT !.icons = Append(@, U16At(data, st.pos + 2))]

\* parse_binary: one iteration of the icon-list loop
icon_step(data, st) ==
    IF ~(st.pos < Len(data) - 4) THEN [st EXCEPT !.done = TRUE]
    ELSE IF U16At(data, st.pos) # 2 THEN [st EXCEPT !.done = TRUE]
    ELSE [st EXCEPT !.icons = Append(@, U16At(data, st.pos + 2)), !.pos = @ + 4]

\* parse_binary: the icon list starting at 0x24
parse_icons(data) ==
    Iterate(LAMBDA st : icon_step(data, st), [pos |-> 36, icons |-> <<>>, done |-> FALSE],
            Len(data))

\* parse_binary: the state at the start of the section loop; flags and
\* board_bg are -1 while result has no "_flags" / "board_background" key
section_start(data) ==
    LET ic == parse_icons(data)
    IN [pos |-> ic.pos, icons |-> ic.icons, done |-> FALSE, err |-> "none",
        flags |-> -1, board_bg |-> -1,
        positions |-> <<>>, backgrounds |-> <<>>, sizes |-> <<>>, colors |-> <<>>,
        arc_angles |-> <<>>, donut_radii |-> <<>>]

\* the same locals, entered from the icon loop's exit state ic
section_locals(ic) ==
    [pos |-> ic.pos, icons |-> ic.icons, done |-> FALSE, err |-> "none",
     flags |-> -1, board_bg |-> -1,
     positions |-> <<>>, backgrounds |-> <<>>, sizes |-> <<>>, colors |-> <<>>,
     arc_angles |-> <<>>, donut_radii |-> <<>>]

\* the elements a section's for-loop reads: count of them, unless the buffer
\* ends first (the loop breaks at the first element that does not fit)
elements_read(data, pos0, count, w) == Min(count, (Len(data) - pos0) \div w)

\* parse_binary: one iteration of the section loop
tag_step(data, st) ==
    LET len == Len(data)
        pos == st.pos
        tag == U16At(data, pos)
        count == U16At(data, pos + 4)
        k2 == elements_read(data, pos + 6, count, 2)
        k4 == elements_read(data, pos + 6, count, 4)
        k1 == elements_read(data, pos + 6, count, 1)
        U16s == [i \in 1..k2 |-> U16At(data, pos + 6 + 2 * (i - 1))]
    IN
    IF ~(pos < len - 2) THEN [st EXCEPT !.done = TRUE]
    ELSE IF tag = 4 THEN
        IF pos + 6 > len THEN [st EXCEPT !.done = TRUE, !.err = "struct.error"]
        ELSE IF count > 1 THEN [st EXCEPT !.pos = pos + 10]
        ELSE IF pos + 8 > len THEN [st EXCEPT !.done = TRUE, !.err = "struct.error"]
        ELSE [st EXCEPT !.flags = U16At(data, pos + 6), !.pos = pos + 8]
    ELSE IF tag \in {5, 6, 7, 8, 10, 11, 12} /\ pos + 6 > len THEN
        [st EXCEPT !.done = TRUE]
    ELSE IF tag = 5 THEN
        [st EXCEPT !.positions = @ \o [i \in 1..k4 |->
                        <<I16At(data, pos + 6 + 4 * (i - 1)),
                          I16At(data, pos + 8 + 4 * (i - 1))>>],
                   !.pos = pos + 6 + 4 * k4]
    ELSE IF tag = 6 THEN
        [st EXCEPT !.backgrounds = @ \o U16s, !.pos = pos + 6 + 2 * k2]
    ELSE IF tag = 7 THEN
        [st EXCEPT !.sizes = @ \o [i \in 1..k1 |-> data[pos + 6 + i]],
                   !.pos = pos + 6 + k1 + (IF count % 2 = 1 THEN 1 ELSE 0)]
    ELSE IF tag = 8 THEN
        [st EXCEPT !.colors = @ \o [i \in 1..k4 |->
                        SubSeq(data, pos + 6 + 4 * (i - 1) + 1, pos + 6 + 4 * i)],
                   !.pos = pos + 6 + 4 * k4]
    ELSE IF tag = 10 THEN
        [st EXCEPT !.arc_angles = @ \o U16s, !.pos = pos + 6 + 2 * k2]
    ELSE IF tag = 11 THEN
        [st EXCEPT !.donut_radii = @ \o U16s, !.pos = pos + 6 + 2 * k2]
    ELSE IF tag = 12 THEN
        [st EXCEPT !.pos = pos + 6 + count * 2]
    ELSE IF tag = 3 THEN
        IF pos + 8 <= len
        THEN [st EXCEPT !.board_bg = U16At(data, pos + 6), !.done = TRUE]
        ELSE [st EXCEPT !.done = TRUE]
    ELSE [st EXCEPT !.pos = pos + 2]

\* parse_sections leaving the section loop at the first unrecognised tag
parse_sections_abort_unknown(data) ==
    Iterate(LAMBDA st :
                IF st.pos < Len(data) - 2
                   /\ U16At(data, st.pos) \notin {3, 4, 5, 6, 7, 8, 10, 11, 12}
                THEN [st EXCEPT !.done = TRUE]
                ELSE tag_step(data, st),
            section_start(data), Len(data))

\* parse_binary: the section loop, run to its exit
parse_sections(data) ==
    Iterate(LAMBDA st : tag_step(data, st), section_start(data), Len(data))

\* data[0x1C:0x24].rstrip(b'\x00').decode('utf-8', errors='replace').strip('\x00')
\* (bytes are ASCII here)
RECURSIVE strip_nul(_)
strip_nul(s) ==
    IF Len(s) > 0 /\ s[Len(s)] = 0 THEN strip_nul(SubSeq(s, 1, Len(s) - 1))
    ELSE IF Len(s) > 0 /\ s[1] = 0 THEN strip_nul(SubSeq(s, 2, Len(s)))
    ELSE s

parse_name(data) == strip_nul(SubSeq(data, 29, Min(36, Len(data))))

\* the stored size byte reported as it is
stored_size(size) == size

\* sizes[i] if sizes[i] > 0 else 100
reported_size(size) == IF size > 0 THEN size ELSE 100

\* parse_binary, "Build objects": object i of the result
\* x and y are count / 10.0, held in hundredths; color stands for the
\* "#rrggbb" string as its three bytes
build_object(st, i) ==
    LET n == Len(st.icons)
        icon_id == st.icons[i]
        base == icon_entry(icon_id) @@
                [x |-> IF i <= Len(st.positions) THEN st.positions[i][1] * 10 ELSE 0,
                 y |-> IF i <= Len(st.positions) THEN st.positions[i][2] * 10 ELSE 0,
                 size |-> IF i <= Len(st.sizes) THEN reported_size(st.sizes[i]) ELSE 100]
        bg == IF i <= Len(st.backgrounds)
              THEN [background |-> obj_bg_name(st.backgrounds[i])] ELSE <<>>
        col == IF i <= Len(st.colors)
               THEN [color |-> SubSeq(st.colors[i], 1, 3)] ELSE <<>>
        tr == IF i <= Len(st.colors) /\ st.colors[i][4] > 0
              THEN [transparency |-> st.colors[i][4]] ELSE <<>>
        arc == IF i <= Len(st.arc_angles) /\ st.arc_angles[i] > 0
               THEN [arc_angle |-> st.arc_angles[i]] ELSE <<>>
        rad == IF i <= Len(st.donut_radii) /\ st.donut_radii[i] > 0
               THEN [donut_radius |-> st.donut_radii[i]] ELSE <<>>
        fl == IF n = 1 /\ st.flags # -1
              THEN IF st.flags = 0 THEN [hidden |-> TRUE]
                   ELSE IF st.flags = 9 \/ (st.flags \div 8) % 2 = 1 THEN [locked |-> TRUE]
                   ELSE <<>>
              ELSE <<>>
    IN base @@ bg @@ col @@ tr @@ arc @@ rad @@ fl

\* parse_binary: the returned dict, or the exception it raises
parse_result(data, st) ==
    IF Len(data) < 4 \/ st.err # "none"
    THEN [err |-> "struct.error", doc |-> <<>>]
    ELSE [err |-> "none",
          doc |-> [version |-> U16At(data, 0) + 65536 * U16At(data, 2),
                   name |-> parse_name(data),
                   objects |-> [i \in 1..Len(st.icons) |-> build_object(st, i)]]
                  @@ (IF st.board_bg # -1
                      THEN [board_background |-> StrV(board_bg_name(st.board_bg))]
                      ELSE <<>>)]

parse_binary(data) == parse_result(data, parse_sections(data))

\* decode_stgy: decode_cipher, then parse_binary
decode_stgy(stgy_string) ==
    LET d == decode_cipher(stgy_string)
    IN IF d.err # "none" THEN [err |-> d.err, doc |-> <<>>] ELSE parse_binary(d.data)

\* ------------------------------------------------------------------------
\* Entry points and the inputs they are called with
\* ------------------------------------------------------------------------
\* all sequences over S of length 0..n
SeqsUpTo(S, n) == UNION {[1..m -> S] : m \in 0..n}

\* objects as callers write them: the fields of a BoardObject, with "color"
\* in the form parse_binary returns it
DonutObject ==
    [type |-> "donut", type_id |-> 17, x |-> 150, y |-> -230, size |-> 50,
     background |-> StrV("grey"), color |-> <<17, 34, 51>>, transparency |-> 5,
     arc_angle |-> 320, donut_radius |-> 80]

Templates ==
    { [type |-> "tank", x |-> 0, y |-> 0],
      [type |-> "tank", x |-> 100, y |-> 0],
      DonutObject,
      [type |-> "healer", x |-> 29, y |-> -5, size |-> 0, locked |-> TRUE] }

\* board names: "", "board", "abcdefgh", "abcdefghi"
Names ==
    { <<>>, <<98, 111, 97, 114, 100>>,
      <<97, 98, 99, 100, 101, 102, 103, 104>>,
      <<97, 98, 99, 100, 101, 102, 103, 104, 105>> }

\* the Documents encode_stgy is called with
Docs ==
    {[name |-> nm, board_background |-> StrV("grey"), objects |-> objs] :
        nm \in Names, objs \in SeqsUpTo(Templates, MaxObjects)}
    \cup {[objects |-> objs] : objs \in SeqsUpTo(Templates, MaxObjects)}

\* random.randint(0, 63) in encode_cipher: the module-wide generator may
\* return any key; the model samples NumKeys of them
RandomKeys == {(59 * j) % 64 : j \in 0..(NumKeys - 1)}

\* encode_stgy: build_binary, then encode_cipher with key=None
encode_stgy(data, k) == encode_cipher(build_binary(data), k)

\* parse_binary's locals at the exit of its section loop; NoParse when the
\* loop was never entered
NoParse == [err |-> "not reached"]

NoResult == [err |-> "not called", doc |-> <<>>]
NoRaw == [err |-> "not called", data |-> <<>>]
Idle == [kind |-> "idle"]

\* ------------------------------------------------------------------------
\* Spec: encode_stgy on a Document, then decode_stgy on the share code
\* ------------------------------------------------------------------------
Init ==
    /\ pc = "start"
    /\ doc \in Docs
    /\ binary = <<>>
    /\ key = -1
    /\ code = <<>>
    /\ prev_code = <<>>
    /\ calls = 0
    /\ raw = NoRaw
    /\ result = NoResult
    /\ prev_result = NoResult
    /\ parsed = NoParse
    /\ tamper = "none"
    /\ reg = Idle

\* one call of encode_stgy(doc)
EncodeCall ==
    /\ \E k \in RandomKeys :
        /\ key' = k
        /\ binary' = build_binary(doc)
        /\ code' = encode_cipher(binary', k)
    /\ prev_code' = code
    /\ calls' = calls + 1
    /\ pc' = "encoded"
    /\ UNCHANGED <<doc, raw, result, prev_result, parsed, tamper, reg>>

\* encode_stgy(doc)
EncodeStgy ==
    /\ pc = "start"
    /\ EncodeCall

\* decode_stgy(code): decode_cipher, then parse_binary on what it returns
DecodeStgy ==
    /\ pc \in {"encoded", "wire"}
    /\ raw' = decode_cipher(code)
    /\ parsed' = IF raw'.err = "none" /\ Len(raw'.data) >= 4
                 THEN parse_sections(raw'.data) ELSE NoParse
    /\ result' = IF raw'.err # "none" THEN [err |-> raw'.err, doc |-> <<>>]
                 ELSE parse_result(raw'.data, parsed')
    /\ prev_result' = result
    /\ pc' = "decoded"
    /\ UNCHANGED <<doc, binary, key, code, prev_code, calls, tamper, reg>>

Next == EncodeStgy \/ DecodeStgy

Spec == Init /\ [][Next]_vars

\* ------------------------------------------------------------------------
\* SpecRepeat: encode_stgy called repeatedly on the same Document
\* ------------------------------------------------------------------------
InitRepeat ==
    /\ Init
    /\ Len(doc.objects) <= 1

\* encode_stgy(doc) called again
EncodeAgain ==
    /\ pc = "encoded"
    /\ calls < MaxCalls
    /\ EncodeCall

NextRepeat == EncodeStgy \/ EncodeAgain

SpecRepeat == InitRepeat /\ [][NextRepeat]_vars

\* ------------------------------------------------------------------------
\* SpecCipher: encode_cipher(b, k), then decode_cipher, on byte buffers
\* ------------------------------------------------------------------------
ByteSamples == {0, 255}

InitCipher ==
    /\ pc = "cipher_input"
    /\ doc = <<>>
    /\ binary \in SeqsUpTo(ByteSamples, MaxBufLen)
    /\ key \in 0..63
    /\ code = <<>>
    /\ prev_code = <<>>
    /\ calls = 0
    /\ raw = NoRaw
    /\ result = NoResult
    /\ prev_result = NoResult
    /\ parsed = NoParse
    /\ tamper = "none"
    /\ reg = Idle

\* encode_cipher(binary, key)
CipherEncode ==
    /\ pc = "cipher_input"
    /\ code' = encode_cipher(binary, key)
    /\ pc' = "cipher_encoded"
    /\ UNCHANGED <<doc, binary, key, prev_code, calls, raw, result, prev_result,
                   parsed, tamper, reg>>

\* decode_cipher(code)
CipherDecode ==
    /\ pc = "cipher_encoded"
    /\ raw' = decode_cipher(code)
    /\ pc' = "cipher_decoded"
    /\ UNCHANGED <<doc, binary, key, code, prev_code, calls, result, prev_result,
                   parsed, tamper, reg>>

NextCipher == CipherEncode \/ CipherDecode

SpecCipher == InitCipher /\ [][NextCipher]_vars

\* ------------------------------------------------------------------------
\* SpecRegistry: the icon and background tables, looked up both ways
\* ------------------------------------------------------------------------
BackgroundNames == DOMAIN obj_bg_map \cup DOMAIN board_bg_map
BackgroundCodes == DOMAIN BACKGROUND_TYPES \cup DOMAIN bg_names

InitRegistry ==
    /\ pc = "registry"
    /\ doc = <<>>
    /\ binary = <<>>
    /\ key = -1
    /\ code = <<>>
    /\ prev_code = <<>>
    /\ calls = 0
    /\ raw = NoRaw
    /\ result = NoResult
    /\ prev_result = NoResult
    /\ parsed = NoParse
    /\ tamper = "none"
    /\ reg \in {[kind |-> "code", stage |-> "input", id |-> c] : c \in 0..MaxIconCode}
          \cup {[kind |-> "name", stage |-> "input", name |-> m] :
                    m \in DOMAIN ICON_TYPE_IDS}
          \cup {[kind |-> "background", stage |-> "input", name |-> m] :
                    m \in BackgroundNames}
          \cup {[kind |-> "bgcode", stage |-> "input", id |-> c] : c \in BackgroundCodes}

RegistryStep(r) ==
    /\ reg' = r
    /\ UNCHANGED <<pc, doc, binary, key, code, prev_code, calls, raw, result,
                   prev_result, parsed, tamper>>

\* parse_binary names the icon code of an object
DecodeIcon ==
    /\ reg.kind = "code" /\ reg.stage = "input"
    /\ RegistryStep([kind |-> "code", stage |-> "named", id |-> reg.id,
                     obj |-> icon_entry(reg.id)])

\* build_binary finds the icon code of that object again, given the object
\* as decoded (carried) or given its "type" name alone
EncodeIcon ==
    /\ reg.kind = "code" /\ reg.stage = "named"
    /\ \E carried \in BOOLEAN :
        LET o == IF carried THEN reg.obj ELSE [type |-> reg.obj.type]
        IN RegistryStep([kind |-> "code", stage |-> "coded", id |-> reg.id,
                         carried |-> carried, back |-> icon_type_id(o)])

\* build_binary finds the code of a named icon
LookupId ==
    /\ reg.kind = "name" /\ reg.stage = "input"
    /\ RegistryStep([kind |-> "name", stage |-> "coded", name |-> reg.name,
                     id |-> icon_type_id([type |-> reg.name])])

\* parse_binary names that code
LookupName ==
    /\ reg.kind = "name" /\ reg.stage = "coded"
    /\ RegistryStep([kind |-> "name", stage |-> "named", name |-> reg.name,
                     id |-> reg.id, out |-> icon_name(reg.id)])

\* build_binary codes a background name for tag 6 and for the footer
EncodeBackground ==
    /\ reg.kind = "background" /\ reg.stage = "input"
    /\ RegistryStep([kind |-> "background", stage |-> "coded", name |-> reg.name,
                     obj_code |-> obj_bg_code([background |-> StrV(reg.name)]),
                     board_code |-> board_bg_code([board_background |-> StrV(reg.name)])])

\* parse_binary names the two codes
DecodeBackground ==
    /\ reg.kind = "background" /\ reg.stage = "coded"
    /\ RegistryStep([kind |-> "background", stage |-> "named", name |-> reg.name,
                     obj_code |-> reg.obj_code, board_code |-> reg.board_code,
                     obj_name |-> obj_bg_name(reg.obj_code),
                     board_name |-> board_bg_name(reg.board_code)])

\* parse_binary names a background code read from tag 6 and from the footer
DecodeBackgroundCode ==
    /\ reg.kind = "bgcode" /\ reg.stage = "input"
    /\ RegistryStep([kind |-> "bgcode", stage |-> "named", id |-> reg.id,
                     obj_name |-> obj_bg_name(reg.id),
                     board_name |-> board_bg_name(reg.id)])

\* build_binary codes the two names again
EncodeBackgroundName ==
    /\ reg.kind = "bgcode" /\ reg.stage = "named"
    /\ RegistryStep([kind |-> "bgcode", stage |-> "coded", id |-> reg.id,
                     obj_back |-> obj_bg_code([background |-> reg.obj_name]),
                     board_back |-> board_bg_code(
                                        [board_background |-> StrV(reg.board_name)])])

NextRegistry ==
    \/ DecodeIcon \/ EncodeIcon \/ LookupId \/ LookupName
    \/ EncodeBackground \/ DecodeBackground
    \/ DecodeBackgroundCode \/ EncodeBackgroundName

SpecRegistry == InitRegistry /\ [][NextRegistry]_vars

\* ------------------------------------------------------------------------
\* SpecDecode: decode_stgy on share codes that reach it changed on the way
\* ------------------------------------------------------------------------
WireDocs ==
    {[name |-> <<98, 111, 97, 114, 100>>, board_background |-> StrV("grey"),
      objects |-> objs] : objs \in SeqsUpTo({DonutObject}, MaxObjects)}

InitDecode ==
    /\ pc = "wire"
    /\ doc \in WireDocs
    /\ key \in RandomKeys
    /\ binary = build_binary(doc)
    /\ code = encode_cipher(binary, key)
    /\ prev_code = <<>>
    /\ calls = 1
    /\ raw = NoRaw
    /\ result = NoResult
    /\ prev_result = NoResult
    /\ parsed = NoParse
    /\ tamper = "none"
    /\ reg = Idle

\* the share code is replaced by new_code and handed to the decoder again
Resend(kind, new_code, new_binary) ==
    /\ pc = "decoded"
    /\ code' = new_code
    /\ binary' = new_binary
    /\ prev_code' = code
    /\ tamper' = kind
    /\ pc' = "wire"
    /\ UNCHANGED <<doc, key, calls, raw, result, prev_result, parsed, reg>>

\* "[stgy:a" replaced by "xxxxxxx", "]" replaced by "?", or "]" left off
ReplaceWrapper ==
    /\ tamper = "none"
    /\ \E w \in {"prefix", "suffix", "both", "unclosed"} :
        LET inner == strip_wrapper(code)
            head == IF w \in {"prefix", "both"} THEN [i \in 1..7 |-> 120] ELSE PREFIX
            tail == IF w \in {"suffix", "both"} THEN <<63>>
                    ELSE IF w = "unclosed" THEN <<>> ELSE SUFFIX
        IN Resend("wrapper", head \o inner \o tail, binary)

\* the last m payload characters are lost
CutPayload ==
    /\ tamper = "none"
    /\ \E m \in 1..3 :
        Resend("payload", SubSeq(code, 1, Len(code) - 1 - m) \o SUFFIX, binary)

\* the six header bytes of the container are overwritten
ForgeHeader ==
    /\ tamper \in {"none", "payload"}
    /\ container_bytes(code).err = "none"
    /\ LET c == container_bytes(code).data
           stream == SubSeq(c, 7, Len(c))
       IN /\ Len(c) >= 6
          /\ \E h \in {Zeros(6), [i \in 1..6 |-> 255],
                       SubSeq(c, 1, 4) \o PackU16((U16Header(c) + 1) % 65536)} :
                Resend("header", cipher_text(h \o stream, key), binary)

\* the share code of a buffer that ends early
TruncateBinary ==
    /\ tamper = "none"
    /\ \E len \in 0..(Len(binary) - 1) :
        LET cut == SubSeq(binary, 1, len)
        IN Resend("truncate", encode_cipher(cut, key), cut)

\* offset of the section with the given tag in build_binary's buffer
SectionOffset(data, tag) ==
    LET objects == data.objects
        Before(t, part) == IF t < tag THEN Len(part) ELSE 0
    IN Len(build_header(data)) + Len(build_icons(objects)) + Len(build_tag4(objects))
       + Before(5, build_tag5(objects)) + Before(6, build_tag6(objects))
       + Before(7, build_tag7(objects)) + Before(8, build_tag8(objects))
       + Before(10, build_tag10(objects)) + Before(11, build_tag11(objects))

\* the share code of a buffer in which one section declares a count other
\* than the object count n
MiscountSection ==
    /\ tamper = "none"
    /\ Len(doc.objects) > 0
    /\ \E tag \in {5, 6, 7, 8, 10, 11, 12}, c \in {0, Len(doc.objects) + 1} :
        LET wrong == PackInto(binary, SectionOffset(doc, tag) + 4, PackU16(c))
        IN Resend("count", encode_cipher(wrong, key), wrong)

NextDecode ==
    \/ DecodeStgy \/ ReplaceWrapper \/ CutPayload \/ ForgeHeader
    \/ TruncateBinary \/ MiscountSection

SpecDecode == InitDecode /\ [][NextDecode]_vars

\* ------------------------------------------------------------------------
\* Claims
\* ------------------------------------------------------------------------
\* C1: for every byte buffer b and every key k in 0..63, decode_cipher of
\* encode_cipher(b, k) returns exactly b, and the key recovered from the key
\* character is k.
C1_CipherRoundTrip ==
    pc = "cipher_decoded" =>
        /\ raw = [err |-> "none", data |-> binary]
        /\ key_of(code[Len(PREFIX) + 1]) = key

C1_Witness ==
    /\ pc = "cipher_decoded"
    /\ key = 63
    /\ Len(binary) >= 6
    /\ raw.data = binary

\* What a Document says, field by field, with the defaults of the data model
\* filled in for the fields it leaves out
RoundTenths(h) ==
    IF h >= 0 THEN ((h + 5) \div 10) * 10 ELSE -(((-h) + 5) \div 10) * 10

ObjectView(o, Coord(_)) ==
    [type |-> Get(o, "type", "tank"),
     x |-> Coord(Get(o, "x", 0)),
     y |-> Coord(Get(o, "y", 0)),
     size |-> Get(o, "size", 100),
     background |-> Get(o, "background", StrV("none")),
     color |-> Get(o, "color", <<255, 255, 255>>),
     transparency |-> Get(o, "transparency", 0),
     arc_angle |-> Get(o, "arc_angle", 0),
     donut_radius |-> Get(o, "donut_radius", 0)]

DocView(d, NameLen, Coord(_)) ==
    LET nm == Get(d, "name", <<98, 111, 97, 114, 100>>)
        objs == Get(d, "objects", <<>>)
    IN [name |-> SubSeq(nm, 1, Min(NameLen, Len(nm))),
        board_background |-> Get(d, "board_background", StrV("none")),
        objects |-> [i \in 1..Len(objs) |-> ObjectView(objs[i], Coord)]]

\* C2: decode_stgy(encode_stgy(d)) equals d in every field, the name cut to
\* 8 bytes and the positions rounded to 0.1 resolution.
C2_DocumentRoundTrip ==
    pc = "decoded" =>
        /\ result.err = "none"
        /\ DocView(result.doc, 8, LAMBDA h : h) = DocView(doc, 8, RoundTenths)

\* the "[stgy:a" ... "]" shape of a share code
HasWrapper(s) ==
    /\ Len(s) >= Len(PREFIX) + Len(SUFFIX)
    /\ SubSeq(s, 1, Len(PREFIX)) = PREFIX
    /\ s[Len(s)] = SUFFIX[1]

\* C3: decode_stgy fails, and returns no Document, whenever its input lacks
\* the "[stgy:a" prefix or the trailing "]", or the text recovered by the
\* cipher is not valid padded base64.
C3_MalformedInputFails ==
    (pc = "decoded"
        /\ (~HasWrapper(code) \/ container_bytes(code).err = "binascii.Error"))
    => (result.err # "none" /\ result.doc = <<>>)

\* C4: parsing fails whenever the buffer is truncated or a per-object section
\* declares an element count different from the object count n.
C4_TruncationOrMiscountFails ==
    (pc = "decoded" /\ tamper \in {"truncate", "count"}) => result.err # "none"

\* every object of the returned Document has its element in every section
SectionsComplete(st) ==
    LET n == Len(st.icons)
    IN /\ Len(st.positions) >= n
       /\ Len(st.backgrounds) >= n
       /\ Len(st.sizes) >= n
       /\ Len(st.colors) >= n
       /\ Len(st.arc_angles) >= n
       /\ Len(st.donut_radii) >= n

\* C5: decode is all-or-nothing: it never returns a Document whose objects
\* carry default or missing values because their section data was absent or
\* cut short.
C5_AllOrNothing ==
    (pc = "decoded" /\ result.err = "none") => SectionsComplete(parsed)

\* two share codes whose containers agree on every byte from offset 6 on
SameStream(a, b) ==
    LET ca == container_bytes(a)
        cb == container_bytes(b)
    IN /\ ca.err = "none" /\ cb.err = "none"
       /\ Len(ca.data) >= 6 /\ Len(cb.data) >= 6
       /\ SubSeq(ca.data, 7, Len(ca.data)) = SubSeq(cb.data, 7, Len(cb.data))

\* C9: the integrity field and the declared length are not validated: two
\* containers that agree from offset 6 on decode to the same result, the same
\* Document or the same failure, whatever their first six bytes are.
C9_HeaderIgnored ==
    (pc = "decoded" /\ prev_code # <<>> /\ SameStream(code, prev_code))
        => result = prev_result

C9_Witness ==
    /\ pc = "decoded" /\ tamper = "header"
    /\ SameStream(code, prev_code)
    /\ SubSeq(container_bytes(code).data, 1, 6) = [i \in 1..6 |-> 255]
    /\ result.err = "none"
    /\ Len(result.doc.objects) >= 1

\* C6: an icon-type code X outside the icon table is named "unknown_X" by the
\* decoder and the encoder maps that name back to X.
C6_UnknownIconRoundTrip ==
    (reg.kind = "code" /\ reg.stage = "coded" /\ reg.id \notin DOMAIN ICON_TYPES)
        => reg.back = reg.id

\* C7: for every name of the icon table, the encoder's code for it is named
\* by the decoder as the same name; no two names share a code; and every code
\* of the decoder's table is found again by the encoder from its name.
C7_IconTablesInverse ==
    /\ (reg.kind = "name" /\ reg.stage = "named") => reg.out = reg.name
    /\ (reg.kind = "name" /\ reg.stage = "coded") =>
           \A m \in DOMAIN ICON_TYPE_IDS : ICON_TYPE_IDS[m] = reg.id => m = reg.name
    /\ (reg.kind = "code" /\ reg.stage = "coded" /\ reg.id \in DOMAIN ICON_TYPES
            /\ ~reg.carried) => reg.back = reg.id

C7_Witness ==
    /\ reg.kind = "name" /\ reg.stage = "named"
    /\ reg.name = "pictomancer" /\ reg.id = 102 /\ reg.out = "pictomancer"

\* C8: each of the seven background names has a tag-6 code in 0..6 and a
\* footer code that is one more, in 1..7; and in each table the encoder's map
\* and the decoder's map are inverses of each other.
C8_BackgroundTables ==
    /\ (reg.kind = "background" /\ reg.stage \in {"coded", "named"}) =>
           /\ reg.obj_code \in 0..6
           /\ reg.board_code = reg.obj_code + 1
    /\ (reg.kind = "background" /\ reg.stage = "named") =>
           /\ reg.obj_name = StrV(reg.name)
           /\ reg.board_name = reg.name
    /\ (reg.kind = "bgcode" /\ reg.stage = "coded") =>
           /\ reg.id \in DOMAIN BACKGROUND_TYPES => reg.obj_back = reg.id
           /\ reg.id \in DOMAIN bg_names => reg.board_back = reg.id
    /\ Cardinality(BackgroundNames) = 7

C8_Witness ==
    /\ reg.kind = "background" /\ reg.stage = "named"
    /\ reg.name = "grey_square" /\ reg.obj_code = 6 /\ reg.board_code = 7

\* C10: two calls of encode_stgy on the same Document return the same share
\* code.
C10_EncodeDeterministic ==
    (pc = "encoded" /\ calls >= 2) => code = prev_code

\* the 64 symbols of share codes: the keys of the substitution table
CustomAlphabet == DOMAIN INVERSE_DAT

\* C11: every share code encode_cipher produces is "[stgy:a", a key
\* character, the payload and "]"; the key character and every payload
\* character belong to the 64-symbol custom alphabet, and neither the 'V'
\* fallback of the key lookup nor the 'A' fallback of the payload lookup is
\* ever taken.
C11_ShareCodeAlphabet ==
    pc \in {"cipher_encoded", "cipher_decoded"} =>
        LET b64 == to_urlsafe(rstrip_eq(b64encode(container_of(binary))))
        IN /\ HasWrapper(code)
           /\ Len(code) = Len(PREFIX) + 1 + Len(b64) + Len(SUFFIX)
           /\ \A i \in (Len(PREFIX) + 1)..(Len(code) - 1) : code[i] \in CustomAlphabet
           /\ base64_value_to_char(key) \in DOMAIN KEY_REVERSE
           /\ \A i \in DOMAIN b64 :
                base64_value_to_char((char_to_base64_value(b64[i]) + (i - 1) + key) % 64)
                    \in DOMAIN FORWARD_DAT

C11_Witness ==
    /\ pc = "cipher_encoded"
    /\ key = 37
    /\ Len(binary) >= 6
    /\ Len(code) > 30

\* ------------------------------------------------------------------------
\* SpecRaw: test_exact_raw.py, decode_to_raw on a share code and
\* encode_from_raw on the bytes it returns, with the key of that share code
\* ------------------------------------------------------------------------
MaxPayloadLen == 4   \* payload characters of the share codes given to decode_to_raw

\* decode_to_raw: decode_cipher without the decompression (the file carries
\* its own copies of the tables and of the two base64 helpers, the same as
\* those of stgy_decoder.py)
decode_to_raw(stgy_string) == container_bytes(stgy_string)

\* encode_from_raw: encode_cipher without the compression and the header
encode_from_raw(raw_data, k) == cipher_text(raw_data, k)

\* payload characters 'f', '+', 'W': the substitutes of 'A', 'N', '_'
PayloadSamples == {102, 43, 87}

RawCodes ==
    {PREFIX \o <<kc>> \o p \o SUFFIX :
        kc \in CustomAlphabet, p \in SeqsUpTo(PayloadSamples, MaxPayloadLen)}

InitRaw ==
    /\ pc = "raw_input"
    /\ code \in RawCodes
    /\ doc = <<>>
    /\ binary = <<>>
    /\ key = -1
    /\ prev_code = <<>>
    /\ calls = 0
    /\ raw = NoRaw
    /\ result = NoResult
    /\ prev_result = NoResult
    /\ parsed = NoParse
    /\ tamper = "none"
    /\ reg = Idle

\* original_raw = decode_to_raw(original_code), and the key of the code
DecodeToRaw ==
    /\ pc = "raw_input"
    /\ raw' = decode_to_raw(code)
    /\ key' = key_of(code[Len(PREFIX) + 1])
    /\ pc' = "raw_decoded"
    /\ UNCHANGED <<doc, binary, code, prev_code, calls, result, prev_result,
                   parsed, tamper, reg>>

\* reconstructed = encode_from_raw(original_raw, key)
EncodeFromRaw ==
    /\ pc = "raw_decoded"
    /\ raw.err = "none"
    /\ code' = encode_from_raw(raw.data, key)
    /\ prev_code' = code
    /\ pc' = "raw_encoded"
    /\ UNCHANGED <<doc, binary, key, calls, raw, result, prev_result, parsed,
                   tamper, reg>>

NextRaw == DecodeToRaw \/ EncodeFromRaw

SpecRaw == InitRaw /\ [][NextRaw]_vars

\* C12 as stated: for every share code c whose key character and payload
\* characters belong to the custom alphabet, decode_to_raw succeeds and
\* encode_from_raw of its bytes with the key of c gives c again.
C12_ReencodeAnyCode ==
    /\ pc = "raw_decoded" => raw.err = "none"
    /\ pc = "raw_encoded" => code = prev_code

\* the payload of c is a canonical unpadded base64 text under c's key: its
\* length is not 1 modulo 4 and the bits of its last symbol that fall
\* outside the last whole byte are zero
CanonicalPayload(c) ==
    LET payload == SubSeq(c, Len(PREFIX) + 2, Len(c) - 1)
        len == Len(payload)
        k == key_of(c[Len(PREFIX) + 1])
        last == char_to_base64_value(decode_symbol(payload[len], len - 1, k))
    IN \/ len % 4 = 0
       \/ len % 4 = 2 /\ last % 16 = 0
       \/ len % 4 = 3 /\ last % 4 = 0

\* C12 (amended): decode_to_raw fails exactly on the share codes whose payload
\* length is 1 modulo 4, and for every other share code over the custom
\* alphabet encode_from_raw gives the code again exactly when its payload is
\* canonical base64 under its key.
C12_ReencodeCanonical ==
    /\ pc = "raw_decoded" =>
           (raw.err = "none" <=> (Len(code) - Len(PREFIX) - 2) % 4 # 1)
    /\ pc = "raw_encoded" => (code = prev_code <=> CanonicalPayload(prev_code))

C12_Witness ==
    /\ pc = "raw_encoded"
    /\ Len(prev_code) = Len(PREFIX) + 1 + 2 + Len(SUFFIX)
    /\ CanonicalPayload(prev_code)
    /\ code = prev_code
    /\ Len(raw.data) = 1

\* ------------------------------------------------------------------------
\* SpecShift: a board is encoded and decoded, then one of its objects at
\* x = 0 is moved to x = 1 and the board is encoded and decoded again
\* ------------------------------------------------------------------------
ShiftDocs ==
    {[objects |-> objs] : objs \in SeqsUpTo(Templates, MaxObjects)}
    \cup {[name |-> <<98, 111, 97, 114, 100>>, board_background |-> StrV("grey"),
           objects |-> objs] : objs \in SeqsUpTo(Templates, MaxObjects)}

InitShift ==
    /\ Init
    /\ doc \in ShiftDocs

\* the caller sets "x" of object i from 0 to 1 and encodes the board again
ShiftX ==
    /\ pc = "decoded"
    /\ tamper = "none"
    /\ \E i \in 1..Len(doc.objects) :
        /\ Get(doc.objects[i], "x", 0) = 0
        /\ doc' = [doc EXCEPT !.objects[i] = [x |-> 100] @@ @]
        /\ reg' = [kind |-> "shift", index |-> i]
    /\ prev_code' = code
    /\ tamper' = "shift"
    /\ pc' = "start"
    /\ UNCHANGED <<binary, key, code, calls, raw, result, prev_result, parsed>>

NextShift == EncodeStgy \/ DecodeStgy \/ ShiftX

SpecShift == InitShift /\ [][NextShift]_vars

\* 0-based offset of the x of object i in the position section of a buffer
\* with n objects: header and name, n icon pairs, tag 4, the tag-5 header
PositionOffset(n, i) ==
    36 + 4 * n + (IF n = 1 THEN 8 ELSE 6 + 2 * n) + 6 + 4 * (i - 1)

\* C13: two boards that differ only in one object's x, 0 in the first and 1
\* in the second, give decoded binaries of equal length that differ only in
\* the two bytes of that object's x in the position section, and the second
\* board decodes as the first with that x at 1.0 (its y, 0.0, unchanged).
C13_ShiftChangesPositionOnly ==
    (pc = "decoded" /\ tamper = "shift") =>
        LET a == decode_cipher(prev_code).data
            b == raw.data
            i == reg.index
            xoff == PositionOffset(Len(doc.objects), i)
        IN /\ raw.err = "none"
           /\ Len(a) = Len(b)
           /\ \A j \in 1..Len(a) : a[j] # b[j] => j \in {xoff + 1, xoff + 2}
           /\ \E j \in 1..Len(a) : a[j] # b[j]
           /\ result.err = "none" /\ prev_result.err = "none"
           /\ result.doc = [prev_result.doc EXCEPT !.objects[i].x = 100]
           /\ prev_result.doc.objects[i].x = 0
           /\ result.doc.objects[i].y = Get(doc.objects[i], "y", 0)

C13_Witness ==
    /\ pc = "decoded" /\ tamper = "shift"
    /\ Len(doc.objects) = 2
    /\ reg.index = 2
    /\ result.err = "none"
    /\ result.doc.objects[2].x = 100 /\ result.doc.objects[2].y = 0
    /\ prev_result.doc.objects[2].x = 0

\* ------------------------------------------------------------------------
\* SpecBuild: build_binary on a Document, then parse_binary on the buffer
\* ------------------------------------------------------------------------
BuildDocs ==
    {[name |-> <<98, 111, 97, 114, 100>>, board_background |-> StrV(b),
      objects |-> objs] :
        b \in BackgroundNames, objs \in SeqsUpTo(Templates, MaxObjects)}
    \cup {[objects |-> objs] : objs \in SeqsUpTo(Templates, MaxObjects)}

InitBuild ==
    /\ pc = "build_input"
    /\ doc \in BuildDocs
    /\ binary = <<>>
    /\ key = -1
    /\ code = <<>>
    /\ prev_code = <<>>
    /\ calls = 0
    /\ raw = NoRaw
    /\ result = NoResult
    /\ prev_result = NoResult
    /\ parsed = NoParse
    /\ tamper = "none"
    /\ reg = Idle

\* binary_data = build_binary(data)
BuildBinary ==
    /\ pc = "build_input"
    /\ binary' = build_binary(doc)
    /\ pc' = "built"
    /\ UNCHANGED <<doc, key, code, prev_code, calls, raw, result, prev_result,
                   parsed, tamper, reg>>

\* parse_binary(binary_data)
ParseBinary ==
    /\ pc = "built"
    /\ parsed' = IF Len(binary) >= 4 THEN parse_sections(binary) ELSE NoParse
    /\ result' = parse_result(binary, parsed')
    /\ pc' = "parsed"
    /\ UNCHANGED <<doc, binary, key, code, prev_code, calls, raw, prev_result,
                   tamper, reg>>

NextBuild == BuildBinary \/ ParseBinary

SpecBuild == InitBuild /\ [][NextBuild]_vars

\* C14: an empty board is built as the header and name followed directly by
\* the 8-byte tag-3 footer, with none of the sections 4 to 12, and it parses
\* to an empty object list and a board background that is one of the seven
\* enum names.
C14_EmptyBoard ==
    (pc = "parsed" /\ Len(doc.objects) = 0) =>
        /\ Len(binary) = 36 + 8
        /\ U16At(binary, 36) = 3
        /\ SubSeq(binary, 37, 42) = <<3, 0, 1, 0, 1, 0>>
        /\ parsed.flags = -1
        /\ parsed.positions = <<>> /\ parsed.backgrounds = <<>>
        /\ parsed.sizes = <<>> /\ parsed.colors = <<>>
        /\ parsed.arc_angles = <<>> /\ parsed.donut_radii = <<>>
        /\ result.err = "none"
        /\ result.doc.objects = <<>>
        /\ "board_background" \in DOMAIN result.doc
        /\ result.doc.board_background \in {StrV(b) : b \in BackgroundNames}
        /\ result.doc.board_background = Get(doc, "board_background", StrV("none"))

C14_Witness ==
    /\ pc = "parsed"
    /\ Len(doc.objects) = 0
    /\ Len(binary) = 44
    /\ result.doc.objects = <<>>
    /\ result.doc.board_background = StrV("checkered_circle")

\* C15: the share code of a board with a single "tank" icon at (0,0) and no
\* other field set decodes to exactly one object with icon type id 47,
\* x = 0.0, y = 0.0, size = 100, colour white and transparency 0 (the alpha
\* byte read is 0, for which the returned object carries no "transparency"
\* entry: the field is at its default).
C15_SingleTank ==
    (pc = "decoded" /\ doc.objects = <<[type |-> "tank", x |-> 0, y |-> 0]>>) =>
        /\ result.err = "none"
        /\ Len(result.doc.objects) = 1
        /\ LET o == result.doc.objects[1]
           IN /\ o.type_id = 47 /\ o.type = "tank"
              /\ o.x = 0 /\ o.y = 0
              /\ o.size = 100
              /\ o.color = <<255, 255, 255>>
              /\ Get(o, "transparency", 0) = 0
              /\ DOMAIN o = {"type", "type_id", "x", "y", "size", "background", "color"}
        /\ parsed.colors = <<(<<255, 255, 255, 0>>)>>
        /\ parsed.sizes = <<100>>

C15_Witness ==
    /\ pc = "decoded"
    /\ doc.objects = <<[type |-> "tank", x |-> 0, y |-> 0]>>
    /\ key = 59
    /\ result.err = "none"
    /\ result.doc.objects[1].type_id = 47
    /\ result.doc.objects[1].size = 100

\* C16: the arc angle and the donut radius of every object of a board of
\* n >= 1 objects are returned exactly by encode_stgy followed by
\* decode_stgy (a value of 0 is returned as an absent entry, the default).
C16_ArcAndRadiusRoundTrip ==
    (pc = "decoded" /\ Len(doc.objects) >= 1) =>
        /\ result.err = "none"
        /\ Len(result.doc.objects) = Len(doc.objects)
        /\ \A i \in 1..Len(doc.objects) :
              /\ Get(result.doc.objects[i], "arc_angle", 0)
                    = Get(doc.objects[i], "arc_angle", 0)
              /\ Get(result.doc.objects[i], "donut_radius", 0)
                    = Get(doc.objects[i], "donut_radius", 0)

C16_Witness ==
    /\ pc = "decoded"
    /\ Len(doc.objects) = 2
    /\ doc.objects[2] = DonutObject
    /\ result.err = "none"
    /\ result.doc.objects[2].arc_angle = 320
    /\ result.doc.objects[2].donut_radius = 80
    /\ "arc_angle" \notin DOMAIN result.doc.objects[1]

\* the format's layout, from its section table: the per-object sections in
\* their order, the width of one element, the length of a section for n
\* objects (6 header bytes, n elements, the pad byte of an odd size array)
SectionTags == <<5, 6, 7, 8, 10, 11, 12>>

ElementWidth(tag) ==
    CASE tag \in {5, 8} -> 4
      [] tag = 7 -> 1
      [] OTHER -> 2

SectionLen(tag, n) ==
    6 + n * ElementWidth(tag) + (IF tag = 7 /\ n % 2 = 1 THEN 1 ELSE 0)

Tag4Len(n) == IF n = 0 THEN 0 ELSE IF n = 1 THEN 8 ELSE 6 + 2 * n

\* 0-based offset of the s-th per-object section; s = 8 is the footer
RECURSIVE SectionAt(_, _)
SectionAt(n, s) ==
    IF s = 1 THEN 36 + 4 * n + Tag4Len(n)
    ELSE SectionAt(n, s - 1) + SectionLen(SectionTags[s - 1], n)

U32At(data, pos) == U16At(data, pos) + 65536 * U16At(data, pos + 2)

\* C17: in every buffer build_binary produces for n >= 1 objects each of the
\* sections 5, 6, 7, 8, 10, 11, 12 is present exactly once, declares the
\* element count n and carries exactly n elements; for n = 0 none of them
\* is present.
C17_SectionCounts ==
    (pc \in {"built", "parsed"}) =>
        LET n == Len(doc.objects)
        IN /\ n = 0 => (Len(binary) = 44 /\ U16At(binary, 36) = 3)
           /\ n >= 1 =>
                /\ Len(binary) = SectionAt(n, 8) + 8
                /\ \A s \in 1..7 :
                      /\ U16At(binary, SectionAt(n, s)) = SectionTags[s]
                      /\ U16At(binary, SectionAt(n, s) + 4) = n
                /\ U16At(binary, SectionAt(n, 8)) = 3
           /\ pc = "parsed" =>
                /\ Len(parsed.icons) = n
                /\ Len(parsed.positions) = n /\ Len(parsed.backgrounds) = n
                /\ Len(parsed.sizes) = n /\ Len(parsed.colors) = n
                /\ Len(parsed.arc_angles) = n /\ Len(parsed.donut_radii) = n

C17_Witness ==
    /\ pc = "parsed"
    /\ Len(doc.objects) = 1
    /\ Len(binary) = 116
    /\ U16At(binary, SectionAt(1, 4)) = 8
    /\ Len(parsed.sizes) = 1

\* C18: every buffer build_binary produces has its parts in one fixed order:
\* header and name, n (marker 2, icon id) pairs, tag 4, then tags 5, 6, 7, 8,
\* 10, 11, 12, and it ends with the 8-byte footer [3][1][1][boardBackground],
\* which is there for every n, n = 0 included; parsing stops at the footer.
C18_FixedOrderAndFooter ==
    (pc \in {"built", "parsed"}) =>
        LET n == Len(doc.objects)
            len == Len(binary)
        IN /\ len >= 44
           /\ U16At(binary, 26) = 8
           /\ \A i \in 1..n : U16At(binary, 36 + 4 * (i - 1)) = 2
           /\ n >= 1 => U16At(binary, 36 + 4 * n) = 4
           /\ n >= 1 => [s \in 1..7 |-> U16At(binary, SectionAt(n, s))] = SectionTags
           /\ SubSeq(binary, len - 7, len - 2) = <<3, 0, 1, 0, 1, 0>>
           /\ U16At(binary, len - 2) \in 1..7
           /\ pc = "parsed" =>
                /\ parsed.pos = len - 8
                /\ parsed.board_bg = U16At(binary, len - 2)

C18_Witness ==
    /\ pc = "parsed"
    /\ Len(doc.objects) = 2
    /\ Get(doc, "board_background", StrV("none")) = StrV("grey_square")
    /\ SubSeq(binary, Len(binary) - 7, Len(binary)) = <<3, 0, 1, 0, 1, 0, 7, 0>>
    /\ parsed.pos = Len(binary) - 8

\* C19: in the buffer build_binary returns, the u32 at offset 0x12 is the
\* total length minus 0x1C and the u32 at offset 0x04 is the total length
\* minus 16.
C19_BackPatchedSizes ==
    (pc \in {"built", "parsed"}) =>
        /\ U32At(binary, 18) = Len(binary) - 28
        /\ U32At(binary, 4) = Len(binary) - 16

C19_Witness ==
    /\ pc = "built"
    /\ Len(doc.objects) = 1
    /\ Len(binary) = 116
    /\ U32At(binary, 18) = 88
    /\ U32At(binary, 4) = 100

\* C20: the u16 at offset 0x18 written by build_binary is the object count n
\* when n <= 1 (0 for an empty board, 1 for a single object) and 1 for
\* every n >= 2.
C20_ObjectCountHeader ==
    (pc \in {"built", "parsed"}) =>
        LET n == Len(doc.objects)
        IN U16At(binary, 24) = (IF n <= 1 THEN n ELSE 1)

\* ------------------------------------------------------------------------
\* SpecFlags: build_binary then parse_binary on boards of exactly one
\* object, with every setting of its "hidden" and "locked" entries
\* ------------------------------------------------------------------------
InitFlags ==
    /\ pc = "build_input"
    /\ doc \in {[objects |-> <<[type |-> t, x |-> x, y |-> 0] @@ h @@ l>>] :
                    t \in {"tank", "healer"}, x \in {0, 100, -50},
                    h \in {<<>>, [hidden |-> TRUE], [hidden |-> FALSE]},
                    l \in {<<>>, [locked |-> TRUE], [locked |-> FALSE]}}
    /\ binary = <<>>
    /\ key = -1
    /\ code = <<>>
    /\ prev_code = <<>>
    /\ calls = 0
    /\ raw = NoRaw
    /\ result = NoResult
    /\ prev_result = NoResult
    /\ parsed = NoParse
    /\ tamper = "none"
    /\ reg = Idle

SpecFlags == InitFlags /\ [][NextBuild]_vars

\* bit 0x08 of a flags value
LockedBit(flags) == (flags \div 8) % 2 = 1

\* C21: for a board of exactly one object the tag-4 section is
\* [4][1][1][flags]; build_binary writes flags = 0 for a hidden object, a
\* value with bit 0x08 set for a locked object and a value with neither
\* meaning otherwise; parse_binary reports hidden exactly when flags = 0 and
\* locked exactly when bit 0x08 is set; so hidden and locked come back from
\* build followed by parse as they were given.
C21_FlagsRoundTrip ==
    (pc = "parsed" /\ Len(doc.objects) = 1) =>
        LET o == doc.objects[1]
            r == result.doc.objects[1]
            flags == U16At(binary, 36 + 4 + 6)
            hidden == Get(o, "hidden", FALSE)
            locked == Get(o, "locked", FALSE)
        IN /\ SubSeq(binary, 41, 46) = <<4, 0, 1, 0, 1, 0>>
           /\ hidden => flags = 0
           /\ locked => LockedBit(flags)
           /\ (~hidden /\ ~locked) => (flags # 0 /\ ~LockedBit(flags))
           /\ Get(r, "hidden", FALSE) = (flags = 0)
           /\ Get(r, "locked", FALSE) = LockedBit(flags)
           /\ Get(r, "hidden", FALSE) = hidden
           /\ Get(r, "locked", FALSE) = locked

\* ------------------------------------------------------------------------
\* SpecInsert: a built buffer is parsed, a 16-bit value that is no
\* recognised tag is inserted where the section loop reads a tag, and the
\* buffer is parsed again
\* ------------------------------------------------------------------------
InitInsert ==
    /\ InitBuild
    /\ doc \in {[objects |-> objs] : objs \in SeqsUpTo(Templates, MaxObjects)}

\* the offsets at which the section loop of parse_binary reads a tag in the
\* buffer built for n objects: the start of tag 4, of each of the sections
\* 5..12 and of the footer
TagOffsets(n) ==
    {36 + 4 * n} \cup (IF n = 0 THEN {} ELSE {SectionAt(n, s) : s \in 1..8})

\* data[:off] + struct.pack('<H', v) + data[off:]
\* (a 2 put directly after the icon list would be read by the icon loop as
\* the marker of one more icon pair, not by the section loop as a tag)
InsertUnknownTag ==
    /\ pc = "parsed"
    /\ tamper = "none"
    /\ \E off \in TagOffsets(Len(doc.objects)), v \in {0, 1, 2, 9, 13, 65535} :
        /\ ~(v = 2 /\ off = 36 + 4 * Len(doc.objects))
        /\ binary' = SubSeq(binary, 1, off) \o PackU16(v)
                        \o SubSeq(binary, off + 1, Len(binary))
    /\ prev_result' = result
    /\ tamper' = "insert"
    /\ pc' = "built"
    /\ UNCHANGED <<doc, key, code, prev_code, calls, raw, result, parsed, reg>>

NextInsert == BuildBinary \/ ParseBinary \/ InsertUnknownTag

SpecInsert == InitInsert /\ [][NextInsert]_vars

\* C22: a 16-bit value at a tag position that is none of the recognised tags
\* is skipped by advancing 2 bytes and parsing goes on: the buffer with such
\* a value inserted between two sections parses to the same Document as the
\* buffer without it, the section loop ending on the footer.
C22_UnknownTagSkipped ==
    (pc = "parsed" /\ tamper = "insert") =>
        /\ result.err = "none"
        /\ result = prev_result
        /\ parsed.pos = Len(binary) - 8
        /\ parsed.board_bg # -1

C22_Witness ==
    /\ pc = "parsed" /\ tamper = "insert"
    /\ Len(doc.objects) = 2
    /\ U16At(binary, SectionAt(2, 3)) = 13
    /\ U16At(binary, SectionAt(2, 3) + 2) = 7
    /\ result = prev_result
    /\ Len(result.doc.objects) = 2

\* C23: an object's RGB color round-trips: a Document whose object carries a
\* color in the form decode emits comes back from encode then decode with
\* the same color.
C23_ColorRoundTrip ==
    (pc = "decoded" /\ result.err = "none"
        /\ Len(result.doc.objects) = Len(doc.objects)) =>
        \A i \in 1..Len(doc.objects) :
            "color" \in DOMAIN doc.objects[i] =>
                Get(result.doc.objects[i], "color", <<>>) = doc.objects[i].color

\* C24: the board name is null-padded or truncated to 8 bytes: a name of at
\* most 8 ASCII bytes is returned unchanged by encode then decode, a longer
\* one as its first 8 bytes.
C24_NameEightBytes ==
    (pc = "decoded" /\ result.err = "none" /\ "name" \in DOMAIN doc) =>
        /\ SubSeq(binary, 29, 36)
             = doc.name \o [j \in 1..(8 - Len(doc.name)) |-> 0]
             \/ Len(doc.name) > 8
        /\ result.doc.name = SubSeq(doc.name, 1, Min(8, Len(doc.name)))

\* C25: positions are signed 16-bit counts of tenths: encode then decode
\* returns each coordinate rounded to the nearest 0.1 with its sign, and a
\* coordinate that is a multiple of 0.1 unchanged.
C25_PositionRounded ==
    (pc = "decoded" /\ result.err = "none"
        /\ Len(result.doc.objects) = Len(doc.objects)) =>
        \A i \in 1..Len(doc.objects) :
            LET o == doc.objects[i]
                r == result.doc.objects[i]
            IN /\ r.x = RoundTenths(Get(o, "x", 0))
               /\ r.y = RoundTenths(Get(o, "y", 0))
               /\ Get(o, "x", 0) % 10 = 0 => r.x = Get(o, "x", 0)
               /\ Get(o, "y", 0) % 10 = 0 => r.y = Get(o, "y", 0)

\* ------------------------------------------------------------------------
\* SpecUnmapped: a share code is decoded, one 'f' of its payload (the
\* substitute of 'A') is replaced by a character that has no entry in the
\* inverse substitution table, and the code is decoded again
\* ------------------------------------------------------------------------
\* '!', '_', '=', 0xC8: characters outside the custom alphabet
UnmappedChars == {33, 95, 61, 200}

InitUnmapped ==
    /\ pc = "raw_input"
    /\ code \in {PREFIX \o <<key_source_of(k)>> \o p \o SUFFIX :
                    k \in RandomKeys, p \in SeqsUpTo(PayloadSamples, MaxPayloadLen)}
    /\ doc = <<>>
    /\ binary = <<>>
    /\ key = -1
    /\ prev_code = <<>>
    /\ calls = 0
    /\ raw = NoRaw
    /\ result = NoResult
    /\ prev_result = NoResult
    /\ parsed = NoParse
    /\ tamper = "none"
    /\ reg = Idle

\* INVERSE_DAT_1420cf4a0.get(ord(c), 65) on a character c without an entry
SubstituteUnmapped ==
    /\ pc = "raw_decoded"
    /\ tamper = "none"
    /\ \E i \in (Len(PREFIX) + 2)..(Len(code) - 1), u \in UnmappedChars :
        /\ code[i] = 102
        /\ u \notin DOMAIN INVERSE_DAT_1420cf4a0
        /\ code' = [code EXCEPT ![i] = u]
    /\ prev_code' = code
    /\ prev_result' = raw
    /\ tamper' = "unmapped"
    /\ pc' = "raw_input"
    /\ UNCHANGED <<doc, binary, key, calls, raw, result, parsed, reg>>

NextUnmapped == DecodeToRaw \/ SubstituteUnmapped

SpecUnmapped == InitUnmapped /\ [][NextUnmapped]_vars

\* C26: during cipher decode a payload character without an entry in the
\* inverse substitution table counts as 6-bit value 0, like the alphabet
\* character that maps to 'A', and decoding goes on without a new error: the
\* code with such a character decodes exactly as the code with 'f' in its
\* place.
C26_UnmappedIsZero ==
    (pc = "raw_decoded" /\ tamper = "unmapped") =>
        /\ raw = prev_result
        /\ raw.err \in {"none", "binascii.Error"}
        /\ raw.err = "binascii.Error" <=> (Len(code) - Len(PREFIX) - 2) % 4 = 1

C26_Witness ==
    /\ pc = "raw_decoded" /\ tamper = "unmapped"
    /\ \E i \in DOMAIN code : code[i] = 95 /\ prev_code[i] = 102
    /\ raw.err = "none"
    /\ Len(raw.data) >= 2
    /\ raw = prev_result

\* ------------------------------------------------------------------------
\* SpecMany: build_binary, then parse_binary, on boards of two and more
\* objects
\* ------------------------------------------------------------------------
MaxManyObjects == 4

ManyDocs ==
    LET objects == { [type |-> "tank", x |-> 0, y |-> 0],
                     [type |-> "healer", x |-> -50, y |-> 2900],
                     DonutObject }
    IN {[objects |-> objs] :
            objs \in UNION {[1..m -> objects] : m \in 2..MaxManyObjects}}

InitMany ==
    /\ pc = "build_input"
    /\ doc \in ManyDocs
    /\ binary = <<>>
    /\ key = -1
    /\ code = <<>>
    /\ prev_code = <<>>
    /\ calls = 0
    /\ raw = NoRaw
    /\ result = NoResult
    /\ prev_result = NoResult
    /\ parsed = NoParse
    /\ tamper = "none"
    /\ reg = Idle

SpecMany == InitMany /\ [][NextBuild]_vars

\* C27: for every n >= 2, also where the tag-4 section (6 + 2n bytes) is
\* longer than the 10 bytes the parser steps over, parsing a built buffer
\* returns exactly n objects in the built order, each with the icon type id
\* and the position it was built with; the parser reaches the tag-5 section.
C27_ManyObjectsParsed ==
    pc = "parsed" =>
        LET n == Len(doc.objects) IN
        /\ Tag4Len(n) = 6 + 2 * n
        /\ U16At(binary, 36 + 4 * n + Tag4Len(n)) = 5
        /\ result.err = "none"
        /\ Len(parsed.positions) = n
        /\ Len(result.doc.objects) = n
        /\ \A i \in 1..n :
            /\ result.doc.objects[i].type_id = icon_type_id(doc.objects[i])
            /\ result.doc.objects[i].x = int_times_10(doc.objects[i].x) * 10
            /\ result.doc.objects[i].y = int_times_10(doc.objects[i].y) * 10

C27_Witness ==
    /\ pc = "parsed"
    /\ Len(doc.objects) = 4
    /\ Len(result.doc.objects) = 4
    /\ result.doc.objects[3].type_id = 17
    /\ result.doc.objects[4].x = -50
    /\ result.doc.objects[4].y = 2900
    /\ U16At(binary, 36 + 16 + 10) = 1

\* C28: for every input buffer of at least 0x24 bytes, whatever tags and
\* counts it holds, parse_binary reads no field beyond the end of the
\* buffer: it returns a result and raises no out-of-range read error.
C28_NoReadBeyondEnd ==
    (pc = "decoded" /\ raw.err = "none" /\ Len(raw.data) >= 36) =>
        /\ parsed.err = "none"
        /\ result.err = "none"

\* ------------------------------------------------------------------------
\* SpecParse: parse_binary run one loop iteration at a time, on built
\* buffers, on their truncations and on buffers with a tag or a count
\* overwritten
\* ------------------------------------------------------------------------
\* 0, 2, 3, 4, 7, 12 or 65535 is written over a tag or over a count
ParseBuffers ==
    UNION {LET buf == build_binary(d)
               n == Len(d.objects)
           IN {buf}
              \cup {SubSeq(buf, 1, len) : len \in 0..(Len(buf) - 1)}
              \cup {PackInto(buf, off + f, PackU16(v)) :
                        off \in TagOffsets(n), f \in {0, 4},
                        v \in {0, 2, 3, 4, 7, 12, 65535}}
           : d \in {[objects |-> objs] :
                        objs \in SeqsUpTo({[type |-> "tank", x |-> 0, y |-> 0],
                                           DonutObject}, MaxObjects)}}

InitParse ==
    /\ pc = "parse_start"
    /\ binary \in ParseBuffers
    /\ doc = <<>>
    /\ key = -1
    /\ code = <<>>
    /\ prev_code = <<>>
    /\ calls = 0
    /\ raw = NoRaw
    /\ result = NoResult
    /\ prev_result = NoResult
    /\ parsed = NoParse
    /\ tamper = "none"
    /\ reg = [kind |-> "loop", iterations |-> 0]

\* the reads before the loops: struct.unpack_from('<I', data, 0) raises on a
\* buffer shorter than 4 bytes; otherwise pos = 0x24, icons = []
ParseStart ==
    /\ pc = "parse_start"
    /\ IF Len(binary) < 4
       THEN /\ result' = [err |-> "struct.error", doc |-> <<>>]
            /\ pc' = "returned"
            /\ UNCHANGED parsed
       ELSE /\ parsed' = [pos |-> 36, icons |-> <<>>, done |-> FALSE]
            /\ pc' = "icon_loop"
            /\ UNCHANGED result
    /\ UNCHANGED <<doc, binary, key, code, prev_code, calls, raw, prev_result,
                   tamper, reg>>

\* one evaluation of `while pos < len(data) - 4` and of the body it guards
IconIteration ==
    /\ pc = "icon_loop"
    /\ LET st == icon_step(binary, parsed)
       IN IF st.done
          THEN parsed' = section_locals(st) /\ pc' = "section_loop"
          ELSE parsed' = st /\ pc' = "icon_loop"
    /\ reg' = [reg EXCEPT !.iterations = @ + 1]
    /\ UNCHANGED <<doc, binary, key, code, prev_code, calls, raw, result,
                   prev_result, tamper>>

\* one evaluation of `while pos < len(data) - 2` and of the body it guards
TagIteration ==
    /\ pc = "section_loop"
    /\ parsed' = tag_step(binary, parsed)
    /\ pc' = IF parsed'.done THEN "parse_exit" ELSE "section_loop"
    /\ reg' = [reg EXCEPT !.iterations = @ + 1]
    /\ UNCHANGED <<doc, binary, key, code, prev_code, calls, raw, result,
                   prev_result, tamper>>

\* the object assembly and `return result`, or the exception on its way out
ParseReturn ==
    /\ pc = "parse_exit"
    /\ result' = parse_result(binary, parsed)
    /\ pc' = "returned"
    /\ UNCHANGED <<doc, binary, key, code, prev_code, calls, raw, prev_result,
                   parsed, tamper, reg>>

NextParse == ParseStart \/ IconIteration \/ TagIteration \/ ParseReturn

\* parse_binary is straight-line synchronous code: a step that can be taken
\* is taken
SpecParse == InitParse /\ [][NextParse]_vars /\ WF_vars(NextParse)

\* an iteration that stays in its loop moves the read position forward
LoopProgress ==
    (pc' = pc /\ pc \in {"icon_loop", "section_loop"}) => parsed'.pos > parsed.pos

\* C29: parse_binary terminates on every input buffer: each iteration of the
\* icon-list loop and of the section loop either leaves the loop or strictly
\* increases the read position, so the number of iterations is bounded by the
\* buffer length.
C29_ParseTerminates ==
    /\ [][LoopProgress]_vars
    /\ [](reg.iterations <= Len(binary))
    /\ <>(pc = "returned")

C29_Witness ==
    /\ pc = "returned"
    /\ reg.iterations >= 10
    /\ Len(parsed.icons) = 2
    /\ Len(parsed.positions) = 2
    /\ result.err = "none"
    /\ result = parse_binary(binary)

\* ------------------------------------------------------------------------
\* SpecSize: encode_stgy, then decode_stgy, on objects of every kind of size
\* ------------------------------------------------------------------------
\* obj.get("size", 100): absent, 0, the ends of the byte range, and sizes
\* beyond one byte
SizeDocs ==
    LET objects ==
            {[type |-> "tank", x |-> 0, y |-> 0]}
            \cup {[type |-> "tank", x |-> 0, y |-> 0, size |-> s] :
                        s \in {0, 1, 100, 255, 256, 300, 512}}
    IN {[objects |-> objs] : objs \in SeqsUpTo(objects, MaxObjects) \ {<<>>}}

InitSize ==
    /\ pc = "start"
    /\ doc \in SizeDocs
    /\ binary = <<>>
    /\ key = -1
    /\ code = <<>>
    /\ prev_code = <<>>
    /\ calls = 0
    /\ raw = NoRaw
    /\ result = NoResult
    /\ prev_result = NoResult
    /\ parsed = NoParse
    /\ tamper = "none"
    /\ reg = Idle

SpecSize == InitSize /\ [][Next]_vars

\* C30: every object returned by decode has a size in 1..255: a stored size
\* byte of 0 is reported as 100, so an object encoded with size 0, or with
\* any size whose low 8 bits are 0, is decoded as size 100 and not as the
\* size it was given.
C30_SizeNeverZero ==
    pc = "decoded" =>
        /\ result.err = "none"
        /\ Len(result.doc.objects) = Len(doc.objects)
        /\ \A i \in 1..Len(doc.objects) :
            LET given == Get(doc.objects[i], "size", 100)
                stored == binary[SectionAt(Len(doc.objects), 3) + 6 + i]
                size == result.doc.objects[i].size
            IN /\ stored = given % 256
               /\ size \in 1..255
               /\ stored = 0 => size = 100
               /\ stored # 0 => size = stored

C30_Witness ==
    /\ pc = "decoded"
    /\ Len(doc.objects) = 2
    /\ Get(doc.objects[1], "size", 100) = 0
    /\ Get(doc.objects[2], "size", 100) = 256
    /\ result.doc.objects[1].size = 100
    /\ result.doc.objects[2].size = 100

====
